---- MODULE Spec2Model ----
(***************************************************************************)
(* A model of the GTFS-RT poller of apps/poller/scripts/poll_to_postgres.py *)
(* (run_iteration, the failure tracker, the daily report and the            *)
(* maintenance gates of main).                                              *)
(*                                                                          *)
(* The program is one sequential loop whose parts touch disjoint state, so  *)
(* the model is cut into slices, one specification each, over one set of    *)
(* variables; a slice leaves the variables of the other slices alone:       *)
(*   Spec         the ingestion cycle and the database transaction          *)
(*   SpecFailure  the fetch loop and the per-URL failure tracker            *)
(*   SpecReport   the daily report                                          *)
(*   SpecMaint    the maintenance gates of the main loop                    *)
(***************************************************************************)
EXTENDS Integers, Sequences, FiniteSets, TLC

(***************************************************************************)
(* Bounds of the model.                                                     *)
(***************************************************************************)
\* header timestamps of the feeds range over 1..MaxTs (0: no timestamp)
MaxTs == 2
\* snapshot rows one run of the process may insert
MaxSnapshots == 2

(***************************************************************************)
(* Values.                                                                  *)
(***************************************************************************)
\* Python's None for an integer timestamp or a missing dict entry.  The code
\* itself turns a header timestamp of 0 into None (`... or None`).
None == 0
NoId == 0

\* class FeedType
FeedTypes == {"vehicle_positions", "trip_updates", "alerts"}
\* the payload fields of a FeedEntity
Payloads == {"vehicle", "trip_update", "alert"}

\* the configured, de-duplicated feed URLs (poll_gtfs.resolve_feeds)
Feeds == <<"u1", "u2", "u3">>
FeedUrls == {Feeds[n] : n \in 1..Len(Feeds)}
\* the substrings among vehicle / trip / alert that url.lower() contains
UrlWords(url) ==
    CASE url = "u1" -> {"vehicle"}
      [] url = "u2" -> {"trip"}
      [] url = "u3" -> {"alert"}
      [] url = "u4" -> {"vehicle", "trip"}
      [] url = "u5" -> {"trip", "alert"}
      [] url = "u6" -> {"vehicle", "alert"}
      [] url = "u7" -> {"vehicle", "trip", "alert"}
      [] OTHER -> {}

\* A decoded FeedMessage: the header timestamp and, per entity, the set of
\* payload fields it carries.
\* The messages the feeds of the model serve: an empty one (classified by
\* its URL) and one with a trip update (a trip-updates feed whatever its URL).
Messages ==
    [timestamp : 0..MaxTs,
     entity : {<<>>, <<{"trip_update"}>>}]
\* What the HTTP GET and the decode of one URL give: a message, or an exception.
FetchError == [error |-> TRUE]
FetchResults == {FetchError} \cup Messages

(***************************************************************************)
(* classify_feed, fetch_single_feed                                         *)
(***************************************************************************)
Unclassifiable == "ValueError"

RECURSIVE ClassifyEntities(_, _)
\* the for loop of classify_feed from entity n on: the first entity that has
\* any payload decides, vehicle before trip_update before alert
ClassifyEntities(entity, n) ==
    IF n > Len(entity) THEN Unclassifiable
    ELSE IF "vehicle" \in entity[n] THEN "vehicle_positions"
    ELSE IF "trip_update" \in entity[n] THEN "trip_updates"
    ELSE IF "alert" \in entity[n] THEN "alerts"
    ELSE ClassifyEntities(entity, n + 1)

\* faulty variant of classify_feed: the URL is looked at first
ClassifyByUrlFirst(url, message) ==
    IF "vehicle" \in UrlWords(url) THEN "vehicle_positions"
    ELSE IF "trip" \in UrlWords(url) THEN "trip_updates"
    ELSE IF "alert" \in UrlWords(url) THEN "alerts"
    ELSE ClassifyEntities(message.entity, 1)

classify_feed(url, message) ==
    LET byEntity == ClassifyEntities(message.entity, 1) IN
    IF byEntity # Unclassifiable THEN byEntity
    ELSE IF "vehicle" \in UrlWords(url) THEN "vehicle_positions"
    ELSE IF "trip" \in UrlWords(url) THEN "trip_updates"
    ELSE IF "alert" \in UrlWords(url) THEN "alerts"
    ELSE Unclassifiable

\* fetch_single_feed: [ok |-> FALSE] stands for the raised exception
fetch_single_feed(url, result) ==
    IF result = FetchError THEN [ok |-> FALSE]
    ELSE LET feed_type == classify_feed(url, result) IN
         IF feed_type = Unclassifiable THEN [ok |-> FALSE]
         ELSE [ok |-> TRUE,
               envelope |-> [url |-> url,
                             feed_type |-> feed_type,
                             header_timestamp |-> result.timestamp]]

(***************************************************************************)
(* Staleness and indexing                                                   *)
(***************************************************************************)
\* faulty variant of _header_is_stale: an equal timestamp is not stale
StaleStrict(header, previous) ==
    IF header = None \/ previous = None THEN FALSE ELSE header < previous

_header_is_stale(header, previous) ==
    IF header = None \/ previous = None THEN FALSE ELSE header <= previous

\* `x or -1`
OrMinusOne(x) == IF x = None THEN -1 ELSE x

RECURSIVE IndexFrom(_, _, _)
\* index_envelopes from envelope n on; indexed maps a feed type to its
\* envelope, NoEnvelope when the dict has no entry
NoEnvelope == [url |-> "", feed_type |-> "", header_timestamp |-> None]
IndexFrom(envs, n, indexed) ==
    IF n > Len(envs) THEN indexed
    ELSE LET e == envs[n]
             existing == indexed[e.feed_type]
         IN IF existing # NoEnvelope
            THEN IF OrMinusOne(e.header_timestamp) > OrMinusOne(existing.header_timestamp)
                 THEN IndexFrom(envs, n + 1, [indexed EXCEPT ![e.feed_type] = e])
                 ELSE IndexFrom(envs, n + 1, indexed)
            ELSE IndexFrom(envs, n + 1, [indexed EXCEPT ![e.feed_type] = e])

NoIndex == [t \in FeedTypes |-> NoEnvelope]
index_envelopes(envs) == IndexFrom(envs, 1, NoIndex)

(***************************************************************************)
(* The database.  A table of child rows is the set of snapshot ids whose    *)
(* batch of rows (what the writer produced for that snapshot) it holds.     *)
(***************************************************************************)
NoCursor == [last_header_timestamp |-> None, last_snapshot_id |-> NoId]
EmptyDb ==
    [rt_snapshots |-> {},
     rt_trip_delays |-> {},
     rt_alerts |-> {},
     rt_vehicle_positions |-> {},
     history_pruned_by |-> NoId,
     rt_feed_cursors |-> [t \in FeedTypes |-> NoCursor]]

VARIABLES
    pc,            \* where main is
    dry_run,       \* args.dry_run
    envelopes,     \* run_iteration: the envelopes fetched in this cycle
    cursors,       \* run_iteration: what load_feed_cursors returned
    indexed,       \* run_iteration: index_envelopes(envelopes)
    snapshot_id,   \* run_iteration: the id insert_snapshot returned
    success,       \* what run_iteration returned
    db,            \* the committed state of the database
    tx,            \* the database as the poller's open transaction sees it
    prev_headers,  \* history: the headers of the last cycle committed
                   \* before the current one
    write_failed,  \* history: a statement of the Writing phase has raised
    delay_lookup,  \* run_iteration: the lookup store_trip_delays returned
    lookup_used,   \* history: the lookup store_vehicle_positions was given
    steps,         \* history: the steps of the Writing phase of this cycle
    upserts,       \* history: kind -> cursor upserts in this cycle
    \* the fetch loop and the failure tracker
    feed_idx,          \* run_iteration: the place of `url` in feeds
    failure_state,     \* main: url -> [count, alert_sent]
    failure_threshold, \* main: load_failure_threshold()
    fetches,           \* history: url -> fetches of it in this cycle
    streak,            \* history: url -> failed fetches since its last success
    run_len,           \* history: the same, since the tracker was last cleared
    alerts_in_streak,  \* history: url -> alerts sent since its last success
    alerts_in_run,     \* history: the same, since the tracker was last cleared
    failure_history,   \* main: the recorded failures, as [date, url, time]
    \* the clock (Europe/Madrid): a day number and the minute of the day
    today,
    time_of_day,
    \* the daily report
    report_state,      \* main: [last_sent_date]
    webhook_report,    \* main: DISCORD_REPORT_WEBHOOK_URL is set
    daily_reports,     \* history: the reports delivered, [sent_on, report_date]
    last_post,         \* history: the last post of a report, delivered or not
    \* the maintenance scheduler
    auto_refresh_static,
    initial_static_refresh,
    auto_archive_snapshots,
    initial_archive_snapshots,
    archive_interval_days,  \* whole days of archive_interval_delta
    today_madrid,           \* main: the date read at startup
    static_refresh_state,   \* main: [last_refresh_date]
    archive_state,          \* main: [last_archive_date, last_attempt_date,
                            \*        next_archive_date]
    last_pass,         \* history: what the last loop pass started
    refreshed_on,      \* history: start date of the last successful refresh
    archived_on,       \* history: date of the last successful archive run
    archive_tried_on,  \* history: date of the last archive run
    conn_open,         \* main: conn is an open connection
    run_conn,          \* history: the connection while the last script ran
    refresh_failed,    \* history: the last refresh run failed
    archive_failed,    \* history: the last archive run failed
    \* calls of the functions that are checked on their own
    classify_call,     \* classify_feed: [url, message, feed_type]
    stops_call,        \* extract_vehicle_position_rows: [data, entity, rows]
    alerts_call,       \* store_alerts: [message, the alert tables]
    archive_call,      \* archive_day: [arguments, live rows, archive, summary]
    call,              \* the arguments, state and result of another function
    \* the DimLookup of a cycle
    lookup,            \* its caches and its missing sets
    warnings,          \* the warnings report_missing has logged
    looked_up          \* history: the (method, trip id) calls on this lookup

writeLocals == <<delay_lookup, lookup_used, steps, upserts>>
cycleVars == <<dry_run, cursors, indexed, snapshot_id, success,
               db, tx, prev_headers, write_failed, writeLocals>>
failureVars == <<feed_idx, failure_state, failure_threshold, fetches, streak,
                 run_len, alerts_in_streak, alerts_in_run>>
clockVars == <<today, time_of_day>>
reportVars == <<report_state, webhook_report, daily_reports, last_post>>
configVars == <<auto_refresh_static, initial_static_refresh,
                auto_archive_snapshots, initial_archive_snapshots,
                archive_interval_days, today_madrid>>
runVars == <<conn_open, run_conn, refresh_failed, archive_failed>>
maintVars == <<static_refresh_state, archive_state, last_pass, refreshed_on,
               archived_on, archive_tried_on, runVars>>
lookupVars == <<lookup, warnings, looked_up>>
callVars == <<classify_call, stops_call, alerts_call, archive_call, call,
             lookupVars>>
vars == <<pc, envelopes, cycleVars, failureVars, failure_history, clockVars,
          reportVars, configVars, maintVars, callVars>>
outsideCycle == <<failureVars, failure_history, clockVars, reportVars,
                  configVars, maintVars, callVars>>
outsideFailure == <<cycleVars, clockVars, reportVars, configVars, maintVars,
                    callVars>>

cycleLocals == <<envelopes, cursors, indexed, snapshot_id>>

NoCursors == [t \in FeedTypes |-> None]

\* load_feed_cursors: feed type -> last_header_timestamp
load_feed_cursors(conn) ==
    [t \in FeedTypes |-> conn.rt_feed_cursors[t].last_header_timestamp]

\* conn.rollback(): the transaction's writes are dropped
Rollback(committed, pending) == committed
\* faulty variant of ConnClose: closing commits the open transaction
CloseCommits(committed, pending) == pending
\* conn.close() with a transaction open: the server drops its writes
ConnClose(committed, pending) == committed

(***************************************************************************)
(* run_iteration                                                            *)
(***************************************************************************)
RECURSIVE FetchFrom(_, _, _)
\* the for loop over feeds from URL n on (the envelopes it collects)
FetchFrom(results, n, envs) ==
    IF n > Len(Feeds) THEN envs
    ELSE LET r == fetch_single_feed(Feeds[n], results[Feeds[n]]) IN
         IF r.ok THEN FetchFrom(results, n + 1, Append(envs, r.envelope))
         ELSE FetchFrom(results, n + 1, envs)

\* Fetching: the loop over the configured URLs (the failure tracker, which
\* this loop also updates, is the slice SpecFailure)
FetchFeeds ==
    /\ pc = "loop"
    /\ \E results \in [FeedUrls -> FetchResults] :
         envelopes' = FetchFrom(results, 1, <<>>)
    /\ tx' = Rollback(db, tx)
    /\ pc' = "validating"
    /\ UNCHANGED writeLocals
    /\ UNCHANGED <<dry_run, cursors, indexed, snapshot_id, success, db,
                   prev_headers, write_failed>>
    /\ UNCHANGED outsideCycle

FeedTypesOf(envs) == {envs[n].feed_type : n \in 1..Len(envs)}

\* faulty variant of AllKindsFetched: two kinds are enough
AnyTwoKinds(envs) == Cardinality(FeedTypesOf(envs)) >= 2
\* len(feed_types) == len(expected_types)
AllKindsFetched(envs) == Cardinality(FeedTypesOf(envs)) = Cardinality(FeedTypes)

\* Validating
Validate ==
    /\ pc = "validating"
    /\ IF ~AllKindsFetched(envelopes)
       THEN /\ tx' = Rollback(db, tx)
            /\ success' = FALSE
            /\ pc' = "done"
       ELSE /\ pc' = "staleness"
            /\ UNCHANGED <<tx, success>>
    /\ UNCHANGED <<dry_run, cycleLocals, db, prev_headers, write_failed>>
    /\ UNCHANGED writeLocals
    /\ UNCHANGED outsideCycle

AllStale(envs, cur) ==
    \A n \in 1..Len(envs) :
        _header_is_stale(envs[n].header_timestamp, cur[envs[n].feed_type])

\* StalenessCheck, index_envelopes and the dry-run return
StalenessCheck ==
    /\ pc = "staleness"
    /\ cursors' = load_feed_cursors(tx)
    /\ IF AllStale(envelopes, cursors')
       THEN /\ tx' = Rollback(db, tx)
            /\ success' = FALSE
            /\ pc' = "done"
            /\ UNCHANGED indexed
       ELSE /\ indexed' = index_envelopes(envelopes)
            /\ IF dry_run
               THEN /\ tx' = Rollback(db, tx)
                    /\ success' = TRUE
                    /\ pc' = "done"
               ELSE /\ pc' = "writing"
                    /\ UNCHANGED <<tx, success>>
    /\ UNCHANGED <<dry_run, envelopes, snapshot_id, db, prev_headers, write_failed>>
    /\ UNCHANGED writeLocals
    /\ UNCHANGED outsideCycle

\* uuid.uuid4(): an id no row has
FreshId == Cardinality(db.rt_snapshots) + 1

insert_snapshot ==
    /\ pc = "writing"
    /\ FreshId <= MaxSnapshots
    /\ snapshot_id' = FreshId
    /\ tx' = [tx EXCEPT !.rt_snapshots = @ \cup {snapshot_id'}]
    /\ pc' = "delays"
    /\ UNCHANGED <<dry_run, envelopes, cursors, indexed, success, db,
                   prev_headers, write_failed>>
    /\ steps' = Append(steps, "insert_snapshot")
    /\ UNCHANGED <<delay_lookup, lookup_used, upserts>>
    /\ UNCHANGED outsideCycle

\* the lookup store_trip_delays builds from the trip updates of its feed
NoLookup == [snapshot_id |-> NoId, header_timestamp |-> None]
\* faulty variant of DelayLookup: the lookup of the cycle before
LookupOfEarlierCycle(sid, envelope) ==
    [snapshot_id |-> sid - 1, header_timestamp |-> envelope.header_timestamp]
DelayLookup(sid, envelope) ==
    [snapshot_id |-> sid, header_timestamp |-> envelope.header_timestamp]

store_trip_delays ==
    /\ pc = "delays"
    /\ tx' = [tx EXCEPT !.rt_trip_delays = @ \cup {snapshot_id}]
    /\ pc' = "alerts"
    /\ UNCHANGED <<dry_run, cycleLocals, success, db, prev_headers, write_failed>>
    /\ delay_lookup' = DelayLookup(snapshot_id, indexed["trip_updates"])
    /\ steps' = Append(steps, "store_trip_delays")
    /\ UNCHANGED <<lookup_used, upserts>>
    /\ UNCHANGED outsideCycle

store_alerts ==
    /\ pc = "alerts"
    /\ tx' = [tx EXCEPT !.rt_alerts = @ \cup {snapshot_id}]
    /\ pc' = "vehicles"
    /\ UNCHANGED <<dry_run, cycleLocals, success, db, prev_headers, write_failed>>
    /\ steps' = Append(steps, "store_alerts")
    /\ UNCHANGED <<delay_lookup, lookup_used, upserts>>
    /\ UNCHANGED outsideCycle

\* store_vehicle_positions: the positions and history rows of the snapshot,
\* then the DELETEs of the history/current rows polled before the cutoff.
\* Which rows the DELETEs remove depends on wall-clock time; the table
\* records the cycle whose DELETEs were the last to run on it.
store_vehicle_positions ==
    /\ pc = "vehicles"
    /\ tx' = [tx EXCEPT !.rt_vehicle_positions = @ \cup {snapshot_id},
                         !.history_pruned_by = snapshot_id]
    /\ pc' = "cursors"
    /\ UNCHANGED <<dry_run, cycleLocals, success, db, prev_headers, write_failed>>
    /\ lookup_used' = delay_lookup
    /\ steps' = Append(steps, "store_vehicle_positions")
    /\ UNCHANGED <<delay_lookup, upserts>>
    /\ UNCHANGED outsideCycle

\* faulty variant of update_feed_cursor: the cursor is never moved
update_feed_cursor_skips(conn, feed_type, header_timestamp, sid) == conn

\* faulty variant of update_feed_cursor: the snapshot id is left as it was
update_feed_cursor_keeps_id(conn, feed_type, header_timestamp, sid) ==
    IF header_timestamp = None THEN conn
    ELSE [conn EXCEPT !.rt_feed_cursors[feed_type].last_header_timestamp =
             header_timestamp]

\* update_feed_cursor returns before its INSERT when there is no timestamp
Upserted(header_timestamp) == header_timestamp # None

\* update_feed_cursor
update_feed_cursor(conn, feed_type, header_timestamp, sid) ==
    IF header_timestamp = None THEN conn
    ELSE [conn EXCEPT !.rt_feed_cursors[feed_type] =
             [last_header_timestamp |-> header_timestamp,
              last_snapshot_id |-> sid]]

RECURSIVE UpdateCursorsOf(_, _, _, _)
\* the loop over indexed.items()
UpdateCursorsOf(conn, types, idx, sid) ==
    IF types = {} THEN conn
    ELSE LET t == CHOOSE x \in types : TRUE IN
         UpdateCursorsOf(
             update_feed_cursor(conn, t, idx[t].header_timestamp, sid),
             types \ {t}, idx, sid)

update_feed_cursors ==
    /\ pc = "cursors"
    /\ tx' = UpdateCursorsOf(tx, {t \in FeedTypes : indexed[t] # NoEnvelope},
                             indexed, snapshot_id)
    /\ pc' = "commit"
    /\ UNCHANGED <<dry_run, cycleLocals, success, db, prev_headers, write_failed>>
    /\ upserts' = [t \in FeedTypes |->
                    IF indexed[t] # NoEnvelope
                       /\ Upserted(indexed[t].header_timestamp)
                    THEN upserts[t] + 1 ELSE upserts[t]]
    /\ steps' = Append(steps, "update_feed_cursor")
    /\ UNCHANGED <<delay_lookup, lookup_used>>
    /\ UNCHANGED outsideCycle

HeadersOf(idx) == [t \in FeedTypes |-> idx[t].header_timestamp]

\* conn.commit() and the return
Commit ==
    /\ pc = "commit"
    /\ db' = tx
    /\ success' = TRUE
    /\ pc' = "done"
    /\ UNCHANGED <<dry_run, cycleLocals, tx, prev_headers, write_failed>>
    /\ steps' = Append(steps, "commit")
    /\ UNCHANGED <<delay_lookup, lookup_used, upserts>>
    /\ UNCHANGED outsideCycle

WritingPcs == {"writing", "delays", "alerts", "vehicles", "cursors", "commit"}

\* A statement of the Writing phase raises.  run_iteration has no handler
\* and main's try has only a finally: the exception leaves the loop, the
\* finally closes the connection and the process ends.
WriteError ==
    /\ pc \in WritingPcs
    /\ write_failed' = TRUE
    /\ db' = ConnClose(db, tx)
    /\ tx' = db'
    /\ pc' = "exited"
    /\ UNCHANGED <<dry_run, cycleLocals, success, prev_headers>>
    /\ UNCHANGED writeLocals
    /\ UNCHANGED outsideCycle

\* SIGTERM / SIGINT: _handle_shutdown raises SystemExit wherever main is;
\* the finally closes the connection.
Signal ==
    /\ pc # "exited"
    /\ db' = ConnClose(db, tx)
    /\ tx' = db'
    /\ pc' = "exited"
    /\ UNCHANGED <<dry_run, cycleLocals, success, prev_headers, write_failed>>
    /\ UNCHANGED writeLocals
    /\ UNCHANGED outsideCycle

\* after run_iteration: a dry run leaves the loop, otherwise the next pass
NextCycle ==
    /\ pc = "done"
    /\ IF dry_run
       THEN /\ pc' = "exited"
            /\ db' = ConnClose(db, tx)
            /\ tx' = db'
       ELSE /\ pc' = "loop"
            /\ UNCHANGED <<db, tx>>
    /\ envelopes' = <<>>
    /\ cursors' = NoCursors
    /\ indexed' = NoIndex
    /\ snapshot_id' = NoId
    /\ prev_headers' = IF snapshot_id \in db.rt_snapshots
                       THEN HeadersOf(indexed) ELSE prev_headers
    /\ UNCHANGED <<dry_run, success, write_failed>>
    /\ delay_lookup' = NoLookup
    /\ lookup_used' = NoLookup
    /\ steps' = <<>>
    /\ upserts' = [t \in FeedTypes |-> 0]
    /\ UNCHANGED outsideCycle

\* main, lines 2260-2262: the tracker starts empty.  The histories start at 0.
NoFailures == [url \in {} |-> [count |-> 0, alert_sent |-> FALSE]]
Zeroes == [url \in FeedUrls |-> 0]

FailureIdle ==
    /\ feed_idx = 1
    /\ failure_state = NoFailures
    /\ failure_history = {}
    /\ fetches = Zeroes
    /\ streak = Zeroes
    /\ run_len = Zeroes
    /\ alerts_in_streak = Zeroes
    /\ alerts_in_run = Zeroes

\* run_iteration has not run and the database is as ensure_schema left it
CycleIdle ==
    /\ envelopes = <<>>
    /\ cursors = NoCursors
    /\ indexed = NoIndex
    /\ snapshot_id = NoId
    /\ success = FALSE
    /\ db = EmptyDb
    /\ tx = EmptyDb
    /\ prev_headers = NoCursors
    /\ write_failed = FALSE
    /\ delay_lookup = NoLookup
    /\ lookup_used = NoLookup
    /\ steps = <<>>
    /\ upserts = [t \in FeedTypes |-> 0]

\* The clock counts days from 1970-01-01 (day 1) and the minutes of the day.
EpochDay == 1
StartDay == 2
ReportTime == 5
ArchiveTime == 120
StaticRefreshTime == 600
Instants == {0, ReportTime, ArchiveTime, StaticRefreshTime}

ClockIdle ==
    /\ today = StartDay
    /\ time_of_day = 0

\* main, lines 2253-2259
NoPost == [sent_on |-> None, report_date |-> None, posted |-> FALSE]
ReportIdle ==
    /\ report_state = [last_sent_date |-> StartDay]
    /\ webhook_report = FALSE
    /\ daily_reports = <<>>
    /\ last_post = NoPost

\* main, lines 2186-2209, with nothing enabled
NoArchiveState ==
    [last_archive_date |-> None, last_attempt_date |-> None,
     next_archive_date |-> None]
\* main, lines 2192-2193: the connection is open from startup on
RunIdle ==
    /\ conn_open = TRUE
    /\ run_conn = ""
    /\ refresh_failed = FALSE
    /\ archive_failed = FALSE

MaintIdle ==
    /\ RunIdle
    /\ auto_refresh_static = FALSE
    /\ initial_static_refresh = FALSE
    /\ auto_archive_snapshots = FALSE
    /\ initial_archive_snapshots = FALSE
    /\ archive_interval_days = 1
    /\ today_madrid = StartDay
    /\ static_refresh_state = [last_refresh_date |-> None]
    /\ archive_state = NoArchiveState
    /\ last_pass = ""
    /\ refreshed_on = None
    /\ archived_on = None
    /\ archive_tried_on = None

\* no call of the functions checked on their own
NoCall == [called |-> FALSE]
CallIdle ==
    /\ classify_call = NoCall
    /\ stops_call = NoCall
    /\ alerts_call = NoCall
    /\ archive_call = NoCall
    /\ call = NoCall
    /\ lookup = NoCall
    /\ warnings = <<>>
    /\ looked_up = {}

Init ==
    /\ pc = "loop"
    /\ dry_run \in BOOLEAN
    /\ CycleIdle
    /\ FailureIdle
    /\ failure_threshold = 0
    /\ ClockIdle
    /\ ReportIdle
    /\ MaintIdle
    /\ CallIdle

Next ==
    \/ FetchFeeds
    \/ Validate
    \/ StalenessCheck
    \/ insert_snapshot
    \/ store_trip_delays
    \/ store_alerts
    \/ store_vehicle_positions
    \/ update_feed_cursors
    \/ Commit
    \/ WriteError
    \/ Signal
    \/ NextCycle

Spec == Init /\ [][Next]_vars

(***************************************************************************)
(* The fetch loop and the failure tracker (specification SpecFailure).      *)
(* run_iteration fetches the URLs one by one; here every fetch is a step,   *)
(* and what follows the loop (validation, staleness, writing: see Spec) is  *)
(* folded into EndCycle, because none of it reads or writes failure_state.  *)
(***************************************************************************)
\* FAILURE_ALERT_THRESHOLD ranges over -1..MaxThreshold
MaxThreshold == 2
\* consecutive failures of one URL that are followed
MaxStreak == 3

\* load_failure_threshold: max(value, 0) of FAILURE_ALERT_THRESHOLD
load_failure_threshold(value) == IF value > 0 THEN value ELSE 0

FailureInputs == {FetchError, [timestamp |-> 1, entity |-> <<>>]}

\* failure_state.setdefault(url, {"count": 0, "alert_sent": False})
SetDefault(state, url) ==
    IF url \in DOMAIN state THEN state
    ELSE [u \in DOMAIN state \cup {url} |->
            IF u = url THEN [count |-> 0, alert_sent |-> FALSE] ELSE state[u]]

\* faulty variant of ShouldAlert: every failure alerts
AlertsAtEveryFailure(threshold, entry) == threshold > 0
\* the except branch, lines 1589-1620: count + 1, and the alert once the
\* count has reached a positive threshold and no alert is flagged
ShouldAlert(threshold, entry) ==
    threshold > 0 /\ entry.count >= threshold /\ ~entry.alert_sent

RecordFailure(state, url, threshold) ==
    LET known == SetDefault(state, url)
        counted == [known[url] EXCEPT !.count = @ + 1]
    IN  [known EXCEPT ![url] =
            IF ShouldAlert(threshold, counted)
            THEN [counted EXCEPT !.alert_sent = TRUE] ELSE counted]

\* faulty variant of ResetOnSuccess: a success leaves the entry as it is
KeepOnSuccess(entry) == entry
\* the else branch, lines 1621-1627
ResetOnSuccess(entry) ==
    IF entry.count # 0 \/ entry.alert_sent
    THEN [count |-> 0, alert_sent |-> FALSE] ELSE entry

RecordSuccess(state, url) ==
    LET known == SetDefault(state, url)
    IN  [known EXCEPT ![url] = ResetOnSuccess(known[url])]

\* faulty variant of NextFeed: a failed fetch ends the loop
BreakOnFailure(n, ok) == IF ok THEN n + 1 ELSE Len(Feeds) + 1
\* `for url in feeds`: an exception does not leave the loop
NextFeed(n, ok) == n + 1

\* failure_history.setdefault(date_key, {}).setdefault(url, set()).add(time_str)
RecordTime(history, date_key, url, time_str) ==
    history \cup {[date |-> date_key, url |-> url, time |-> time_str]}

Bump(f, url) == [f EXCEPT ![url] = @ + 1]
Clear(f, url) == [f EXCEPT ![url] = 0]

BeginCycle ==
    /\ pc = "loop"
    /\ pc' = "fetching"
    /\ envelopes' = <<>>
    /\ feed_idx' = 1
    /\ fetches' = Zeroes
    /\ UNCHANGED <<failure_state, failure_threshold, streak, run_len,
                   alerts_in_streak, alerts_in_run, failure_history>>
    /\ UNCHANGED outsideFailure

FetchOne ==
    /\ pc = "fetching"
    /\ feed_idx <= Len(Feeds)
    /\ \E result \in FailureInputs :
         LET url == Feeds[feed_idx]
             fetched == fetch_single_feed(url, result)
             entry == [SetDefault(failure_state, url)[url] EXCEPT !.count = @ + 1]
             alert == IF ShouldAlert(failure_threshold, entry) THEN 1 ELSE 0
         IN  /\ fetches' = Bump(fetches, url)
             /\ feed_idx' = NextFeed(feed_idx, fetched.ok)
             /\ IF fetched.ok
                THEN /\ envelopes' = Append(envelopes, fetched.envelope)
                     /\ failure_state' = RecordSuccess(failure_state, url)
                     /\ streak' = Clear(streak, url)
                     /\ run_len' = Clear(run_len, url)
                     /\ alerts_in_streak' = Clear(alerts_in_streak, url)
                     /\ alerts_in_run' = Clear(alerts_in_run, url)
                     /\ failure_history' = failure_history
                ELSE /\ streak[url] < MaxStreak
                     /\ envelopes' = envelopes
                     /\ failure_state' =
                            RecordFailure(failure_state, url, failure_threshold)
                     /\ streak' = Bump(streak, url)
                     /\ run_len' = Bump(run_len, url)
                     /\ alerts_in_streak' =
                            [alerts_in_streak EXCEPT ![url] = @ + alert]
                     /\ alerts_in_run' = [alerts_in_run EXCEPT ![url] = @ + alert]
                     /\ failure_history' =
                            RecordTime(failure_history, today, url, time_of_day)
    /\ UNCHANGED <<pc, failure_threshold>>
    /\ UNCHANGED outsideFailure

\* the loop is over; the rest of the pass does not touch the tracker
EndCycle ==
    /\ pc = "fetching"
    /\ feed_idx > Len(Feeds)
    /\ pc' = "loop"
    /\ UNCHANGED <<envelopes, failureVars, failure_history>>
    /\ UNCHANGED outsideFailure

\* main, lines 2343-2348: after a successful scheduled static refresh the
\* tracker is cleared and the pass ends (continue)
ScheduledRefresh ==
    /\ pc = "loop"
    /\ failure_state' = NoFailures
    /\ failure_history' = {}
    /\ run_len' = Zeroes
    /\ alerts_in_run' = Zeroes
    /\ UNCHANGED <<pc, envelopes, feed_idx, failure_threshold, fetches, streak,
                   alerts_in_streak>>
    /\ UNCHANGED outsideFailure

InitFailure ==
    /\ pc = "loop"
    /\ dry_run = FALSE
    /\ CycleIdle
    /\ FailureIdle
    /\ ClockIdle
    /\ ReportIdle
    /\ MaintIdle
    /\ CallIdle
    /\ \E value \in -1..MaxThreshold :
         failure_threshold = load_failure_threshold(value)

NextFailure ==
    \/ BeginCycle
    \/ FetchOne
    \/ EndCycle
    \/ ScheduledRefresh

SpecFailure == InitFailure /\ [][NextFailure]_vars

(***************************************************************************)
(* The clock.  Time passes while the loop waits for its next pass           *)
(* (wait_for_alignment or time.sleep) and while a maintenance script runs.  *)
(***************************************************************************)
\* the last day the clock reaches
MaxDay == 4

Later(date, time) ==
    {c \in (date..MaxDay) \X Instants : c[1] > date \/ c[2] >= time}

outsideClock == <<envelopes, cycleVars, failureVars, failure_history,
                  reportVars, configVars, maintVars, callVars>>

\* main, lines 2317-2323
Sleep ==
    /\ pc = "sleep"
    /\ \E c \in Later(today, time_of_day) :
         /\ today' = c[1]
         /\ time_of_day' = c[2]
    /\ pc' = "loop"
    /\ UNCHANGED outsideClock

(***************************************************************************)
(* The daily report (specification SpecReport).  A pass of the loop ends    *)
(* either with maybe_send_daily_report or, after a maintenance run, with    *)
(* `continue`; the polling cycle before the report is the one of Spec.      *)
(* A report counts as delivered when post_discord_webhook returns True.     *)
(***************************************************************************)
\* faulty variant of AlreadySent: the last sent date is not looked at
NeverSent(last_sent, current_date) == FALSE
\* last_sent == current_date
AlreadySent(last_sent, current_date) == last_sent = current_date

\* report_date = current_date - timedelta(days=1)
ReportDate(current_date) == current_date - 1

\* report_date.year < 1970
YearBefore1970(date) == date < EpochDay

\* failure_history.pop(report_date, None)
Pop(history, date_key) == {f \in history : f.date # date_key}

outsideReport == <<envelopes, cycleVars, failureVars, clockVars, configVars,
                   maintVars, callVars>>

maybe_send_daily_report ==
    /\ pc = "loop"
    /\ pc' = "sleep"
    /\ IF AlreadySent(report_state.last_sent_date, today)
       THEN UNCHANGED <<report_state, daily_reports, last_post, failure_history>>
       ELSE IF time_of_day < ReportTime
       THEN UNCHANGED <<report_state, daily_reports, last_post, failure_history>>
       ELSE IF ~webhook_report \/ YearBefore1970(ReportDate(today))
       THEN /\ report_state' = [report_state EXCEPT !.last_sent_date = today]
            /\ UNCHANGED <<daily_reports, last_post, failure_history>>
       ELSE \E posted \in BOOLEAN :
            /\ last_post' = [sent_on |-> today,
                             report_date |-> ReportDate(today),
                             posted |-> posted]
            /\ IF posted
               THEN /\ report_state' =
                        [report_state EXCEPT !.last_sent_date = today]
                    /\ daily_reports' =
                        Append(daily_reports,
                               [sent_on |-> today,
                                report_date |-> ReportDate(today)])
                    /\ failure_history' = Pop(failure_history, ReportDate(today))
               ELSE UNCHANGED <<report_state, daily_reports, failure_history>>
    /\ UNCHANGED webhook_report
    /\ UNCHANGED outsideReport

\* a pass that ended with `continue` (lines 2348, 2386): no report call
SkipPass ==
    /\ pc = "loop"
    /\ pc' = "sleep"
    /\ UNCHANGED <<reportVars, failure_history>>
    /\ UNCHANGED outsideReport

InitReport ==
    /\ pc = "loop"
    /\ dry_run = FALSE
    /\ CycleIdle
    /\ FailureIdle
    /\ failure_threshold = 0
    /\ today = StartDay
    /\ time_of_day \in Instants
    /\ report_state = [last_sent_date |-> today]
    /\ webhook_report \in BOOLEAN
    /\ daily_reports = <<>>
    /\ last_post = NoPost
    /\ MaintIdle
    /\ CallIdle

NextReport ==
    \/ maybe_send_daily_report
    \/ SkipPass
    \/ Sleep

SpecReport == InitReport /\ [][NextReport]_vars

(***************************************************************************)
(* The maintenance scheduler (specification SpecMaint): the startup runs    *)
(* and the two gates at the head of every loop pass.  The scripts           *)
(* themselves are run_static_refresh and run_archive_snapshots; here only   *)
(* their outcome (ok or not) matters.                                       *)
(***************************************************************************)
\* ARCHIVE_INTERVAL_DAYS, in whole days, ranges over 0..MaxIntervalDays
MaxIntervalDays == 2

\* date + archive_interval_delta: a date moves by the whole days of the delta
PlusInterval(date, days) == date + days

\* main, lines 2195-2209
ArchiveStateAtStartup(latest_archive_date, date, enabled, days) ==
    [last_archive_date |-> latest_archive_date,
     last_attempt_date |-> None,
     next_archive_date |->
        IF ~enabled THEN None
        ELSE IF latest_archive_date # None
             THEN PlusInterval(latest_archive_date, days)
             ELSE PlusInterval(date, days)]

\* main, lines 2325-2328
RefreshDue(state, date, time) ==
    time >= StaticRefreshTime /\ state.last_refresh_date # date

\* faulty variant of ArchiveDue: a failed run of today does not close the gate
ArchiveDueUnlessArchived(state, date, time) ==
    /\ time >= ArchiveTime
    /\ state.last_archive_date # date
    /\ state.next_archive_date = None \/ date >= state.next_archive_date
\* main, lines 2350-2360
ArchiveDue(state, date, time) ==
    /\ time >= ArchiveTime
    /\ state.last_archive_date # date
    /\ state.last_attempt_date # date
    /\ state.next_archive_date = None \/ date >= state.next_archive_date

RefreshStarts ==
    /\ auto_refresh_static /\ ~dry_run
    /\ RefreshDue(static_refresh_state, today, time_of_day)
ArchiveStarts ==
    /\ ~RefreshStarts
    /\ auto_archive_snapshots /\ ~dry_run
    /\ ArchiveDue(archive_state, today, time_of_day)

\* the connection a maintenance script finds: conn.close() comes before the
\* script in lines 2230, 2333 and 2365, and not in lines 2211-2224
ConnDuring(open) == IF open THEN "open" ELSE "closed"

outsideMaint == <<envelopes, cycleVars, feed_idx, failure_threshold, fetches,
                  streak, alerts_in_streak, reportVars, configVars, callVars>>

\* main, lines 2211-2224: now_madrid is read before the script runs
StartupRefresh ==
    /\ pc = "startup_refresh"
    /\ IF initial_static_refresh /\ ~dry_run
       THEN \E refresh_ok \in BOOLEAN, c \in Later(today, time_of_day) :
            /\ today' = c[1]
            /\ time_of_day' = c[2]
            /\ pc' = IF refresh_ok THEN "startup_archive" ELSE "exited"
            /\ refreshed_on' = IF refresh_ok THEN today ELSE refreshed_on
            /\ static_refresh_state' =
                 IF refresh_ok /\ time_of_day >= StaticRefreshTime
                 THEN [static_refresh_state EXCEPT !.last_refresh_date = today]
                 ELSE static_refresh_state
            /\ run_conn' = ConnDuring(conn_open)
            /\ refresh_failed' = ~refresh_ok
       ELSE /\ pc' = "startup_archive"
            /\ UNCHANGED <<clockVars, refreshed_on, static_refresh_state,
                           run_conn, refresh_failed>>
    /\ UNCHANGED <<archive_state, last_pass, archived_on, archive_tried_on,
                   conn_open, archive_failed,
                   failure_state, failure_history, run_len, alerts_in_run>>
    /\ UNCHANGED outsideMaint

\* main, lines 2227-2248: now_madrid is read after the script has run
StartupArchive ==
    /\ pc = "startup_archive"
    /\ pc' = "loop"
    /\ IF auto_archive_snapshots /\ ~dry_run /\ initial_archive_snapshots
       THEN \E archive_ok \in BOOLEAN, c \in Later(today, time_of_day) :
            /\ today' = c[1]
            /\ time_of_day' = c[2]
            /\ archive_tried_on' = c[1]
            /\ archived_on' = IF archive_ok THEN c[1] ELSE archived_on
            /\ archive_state' =
                 IF archive_ok /\ c[2] >= ArchiveTime
                 THEN [last_archive_date |-> c[1],
                       last_attempt_date |-> c[1],
                       next_archive_date |->
                            PlusInterval(c[1], archive_interval_days)]
                 ELSE [last_archive_date |-> archive_state.last_archive_date,
                       last_attempt_date |-> c[1],
                       next_archive_date |-> today_madrid]
            /\ run_conn' = ConnDuring(FALSE)
            /\ conn_open' = TRUE
            /\ archive_failed' = ~archive_ok
       ELSE UNCHANGED <<clockVars, archive_tried_on, archived_on, archive_state,
                        run_conn, conn_open, archive_failed>>
    /\ UNCHANGED <<static_refresh_state, last_pass, refreshed_on, refresh_failed,
                   failure_state, failure_history, run_len, alerts_in_run>>
    /\ UNCHANGED outsideMaint

\* main, lines 2325-2348
RefreshPass ==
    /\ pc = "loop"
    /\ RefreshStarts
    /\ last_pass' = "refresh"
    /\ run_conn' = ConnDuring(FALSE)
    /\ \E refresh_ok \in BOOLEAN :
         /\ refresh_failed' = ~refresh_ok
         /\ conn_open' = refresh_ok
         /\ IF refresh_ok
            THEN /\ pc' = "sleep"
                 /\ static_refresh_state' =
                       [static_refresh_state EXCEPT !.last_refresh_date = today]
                 /\ refreshed_on' = today
                 /\ failure_state' = NoFailures
                 /\ failure_history' = {}
                 /\ run_len' = Zeroes
                 /\ alerts_in_run' = Zeroes
            ELSE /\ pc' = "exited"
                 /\ UNCHANGED <<static_refresh_state, refreshed_on, failure_state,
                                failure_history, run_len, alerts_in_run>>
    /\ UNCHANGED <<clockVars, archive_state, archived_on, archive_tried_on,
                   archive_failed>>
    /\ UNCHANGED outsideMaint

\* main, lines 2365-2385: what a scheduled archive run records
ArchiveRecordedAsDone(state, date, days, archive_ok) ==
    [last_archive_date |-> date,
     last_attempt_date |-> date,
     next_archive_date |-> PlusInterval(date, days)]
AfterScheduledArchive(state, date, days, archive_ok) ==
    IF archive_ok
    THEN [last_archive_date |-> date,
          last_attempt_date |-> date,
          next_archive_date |-> PlusInterval(date, days)]
    ELSE [last_archive_date |-> state.last_archive_date,
          last_attempt_date |-> date,
          next_archive_date |->
              IF state.next_archive_date = None
              THEN PlusInterval(date, days)
              ELSE state.next_archive_date]

\* main, lines 2350-2386
ArchivePass ==
    /\ pc = "loop"
    /\ ArchiveStarts
    /\ last_pass' = "archive"
    /\ pc' = "sleep"
    /\ archive_tried_on' = today
    /\ run_conn' = ConnDuring(FALSE)
    /\ conn_open' = TRUE
    /\ \E archive_ok \in BOOLEAN :
         /\ archived_on' = IF archive_ok THEN today ELSE archived_on
         /\ archive_failed' = ~archive_ok
         /\ archive_state' =
              AfterScheduledArchive(archive_state, today,
                                    archive_interval_days, archive_ok)
    /\ UNCHANGED <<clockVars, static_refresh_state, refreshed_on, refresh_failed,
                   failure_state, failure_history, run_len, alerts_in_run>>
    /\ UNCHANGED outsideMaint

\* main, lines 2388-2437: neither gate opened, the pass polls (see Spec)
PollPass ==
    /\ pc = "loop"
    /\ ~RefreshStarts
    /\ ~ArchiveStarts
    /\ last_pass' = "poll"
    /\ pc' = IF dry_run THEN "exited" ELSE "sleep"
    /\ conn_open' = ~dry_run
    /\ UNCHANGED <<clockVars, static_refresh_state, archive_state, refreshed_on,
                   archived_on, archive_tried_on, run_conn, refresh_failed,
                   archive_failed,
                   failure_state, failure_history, run_len, alerts_in_run>>
    /\ UNCHANGED outsideMaint

InitMaint ==
    /\ pc = "startup_refresh"
    /\ dry_run \in BOOLEAN
    /\ CycleIdle
    /\ FailureIdle
    /\ failure_threshold = 0
    /\ ReportIdle
    /\ today = StartDay
    /\ time_of_day \in Instants
    /\ auto_refresh_static \in BOOLEAN
    /\ initial_static_refresh \in BOOLEAN
    /\ auto_archive_snapshots \in BOOLEAN
    /\ initial_archive_snapshots \in BOOLEAN
    /\ archive_interval_days \in 0..MaxIntervalDays
    /\ today_madrid = today
    /\ static_refresh_state = [last_refresh_date |-> None]
    /\ \E latest \in {None} \cup (EpochDay..StartDay) :
         LET latest_archive_date ==
                IF auto_archive_snapshots /\ ~dry_run THEN latest ELSE None
         IN  /\ archive_state =
                    ArchiveStateAtStartup(latest_archive_date, today_madrid,
                                          auto_archive_snapshots,
                                          archive_interval_days)
             /\ archived_on = latest_archive_date
             /\ archive_tried_on = latest_archive_date
    /\ last_pass = ""
    /\ refreshed_on = None
    /\ RunIdle
    /\ CallIdle

NextMaint ==
    \/ StartupRefresh
    \/ StartupArchive
    \/ RefreshPass
    \/ ArchivePass
    \/ PollPass
    \/ Sleep

SpecMaint == InitMaint /\ [][NextMaint]_vars

(***************************************************************************)
(* classify_feed on its own (specification SpecClassify): any URL, any      *)
(* message of up to MaxEntities entities, each with any of the payloads.    *)
(***************************************************************************)
MaxEntities == 2

SampleUrls == {"u0", "u1", "u2", "u3", "u4", "u5", "u6", "u7"}
Entities == UNION {[1..n -> SUBSET Payloads] : n \in 0..MaxEntities}

outsideCalls == <<envelopes, cycleVars, failureVars, failure_history,
                  clockVars, reportVars, configVars, maintVars, call>>

Classify ==
    /\ pc = "call"
    /\ pc' = "returned"
    /\ classify_call' =
         [classify_call EXCEPT !.feed_type =
             classify_feed(classify_call.url, classify_call.message)]
    /\ UNCHANGED <<outsideCalls, stops_call, alerts_call, archive_call, lookupVars>>

InitClassify ==
    /\ pc = "call"
    /\ dry_run = FALSE
    /\ CycleIdle
    /\ FailureIdle
    /\ failure_threshold = 0
    /\ ClockIdle
    /\ ReportIdle
    /\ MaintIdle
    /\ call = NoCall
    /\ stops_call = NoCall
    /\ alerts_call = NoCall
    /\ archive_call = NoCall
    /\ lookup = NoCall
    /\ warnings = <<>>
    /\ looked_up = {}
    /\ \E url \in SampleUrls, entity \in Entities :
         classify_call = [called |-> TRUE, url |-> url,
                          message |-> [timestamp |-> None, entity |-> entity],
                          feed_type |-> ""]

NextClassify == Classify

SpecClassify == InitClassify /\ [][NextClassify]_vars

(***************************************************************************)
(* Previous and next stop of a vehicle (specification SpecStops): one       *)
(* vehicle entity, the stops dimension, the stop times of its trip in       *)
(* reference storage and the rows of the fallback CSV file.                 *)
(***************************************************************************)
MaxSeq == 3

Stops == {"s1", "s2", "s3"}
NoStop == ""          \* a stop id that is None or empty
NoTrip == ""          \* a trip id that is None or empty
NoEntry == [stop_sequence |-> None, stop_id |-> NoStop]

StopTimeEntry(stop_sequence, stop_id) ==
    [stop_sequence |-> stop_sequence, stop_id |-> stop_id]

\* rows of a stop times table or file: (trip_id, stop_sequence, stop_id)
StopTimeRow(trip_id, stop_sequence, stop_id) ==
    [trip_id |-> trip_id, stop_sequence |-> stop_sequence, stop_id |-> stop_id]

\* sort(key = stop_sequence) and ORDER BY stop_sequence: a stable insertion
RECURSIVE InsertBySequence(_, _)
InsertBySequence(entry, sorted) ==
    IF sorted = <<>> THEN <<entry>>
    ELSE IF sorted[1].stop_sequence <= entry.stop_sequence
         THEN <<sorted[1]>> \o InsertBySequence(entry, Tail(sorted))
         ELSE <<entry>> \o sorted

RECURSIVE SortBySequence(_)
SortBySequence(entries) ==
    IF entries = <<>> THEN <<>>
    ELSE LET n == Len(entries)
         IN  InsertBySequence(entries[n], SortBySequence(SubSeq(entries, 1, n - 1)))

\* StopTimesCsvFallback.get_profile: the valid rows of the trip, sorted
RECURSIVE CsvEntries(_, _)
CsvEntries(csv_rows, trip_id) ==
    IF csv_rows = <<>> THEN <<>>
    ELSE LET row == csv_rows[1]
             rest == CsvEntries(Tail(csv_rows), trip_id)
         IN  IF row.trip_id # trip_id THEN rest
             ELSE IF row.stop_sequence = None \/ row.stop_id = NoStop THEN rest
             ELSE <<StopTimeEntry(row.stop_sequence, row.stop_id)>> \o rest

get_profile(csv_rows, trip_id) == SortBySequence(CsvEntries(csv_rows, trip_id))

\* SELECT ... FROM dim_stop_times WHERE trip_id = %s ORDER BY stop_sequence
RECURSIVE RowsInAnyOrder(_)
RowsInAnyOrder(rows) ==
    IF rows = {} THEN <<>>
    ELSE LET row == CHOOSE r \in rows : TRUE
         IN  <<StopTimeEntry(row.stop_sequence, row.stop_id)>>
                \o RowsInAnyOrder(rows \ {row})

SelectStopTimes(dim_stop_times, trip_id) ==
    SortBySequence(RowsInAnyOrder({r \in dim_stop_times : r.trip_id = trip_id}))

_load_trip_profile(data, trip_id) ==
    LET rows == SelectStopTimes(data.dim_stop_times, trip_id)
    IN  IF rows # <<>> THEN rows
        ELSE IF data.has_fallback THEN get_profile(data.csv_rows, trip_id)
        ELSE <<>>

\* the position (from 1) of the first entry of the stop; 0 when there is no
\* context
get_stop_context(data, trip_id, stop_id) ==
    IF trip_id = NoTrip \/ stop_id = NoStop THEN 0
    ELSE LET profile == _load_trip_profile(data, trip_id)
             at == {index \in 1..Len(profile) : profile[index].stop_id = stop_id}
         IN  IF at = {} THEN 0
             ELSE CHOOSE index \in at : \A other \in at : index <= other

get_adjacent_stop(data, trip_id, current_index, forward) ==
    IF trip_id = NoTrip THEN NoEntry
    ELSE LET profile == _load_trip_profile(data, trip_id)
             next_index == current_index + (IF forward THEN 1 ELSE -1)
         IN  IF 1 <= next_index /\ next_index <= Len(profile)
             THEN profile[next_index]
             ELSE NoEntry

\* faulty variant of ensure_stop: every stop id given is taken as known
EveryStopKnown(data, stop_id) == stop_id # NoStop

ensure_stop(data, stop_id) ==
    /\ stop_id # NoStop
    /\ stop_id \in data.dim_stops

\* the rows of a message that has the one vehicle entity
extract_vehicle_position_rows(entity, data) ==
    IF entity.id = "" THEN <<>>
    ELSE
      LET raw_trip_id == entity.trip_id
          current_stop_id ==
              IF ensure_stop(data, entity.stop_id) THEN entity.stop_id
              ELSE NoStop
          context ==
              IF current_stop_id # NoStop /\ raw_trip_id # NoTrip
              THEN get_stop_context(data, raw_trip_id, current_stop_id)
              ELSE 0
          prev_entry == IF context = 0 THEN NoEntry
                        ELSE get_adjacent_stop(data, raw_trip_id, context, FALSE)
          next_entry == IF context = 0 THEN NoEntry
                        ELSE get_adjacent_stop(data, raw_trip_id, context, TRUE)
          prev_known == prev_entry # NoEntry /\ ensure_stop(data, prev_entry.stop_id)
          next_known == next_entry # NoEntry /\ ensure_stop(data, next_entry.stop_id)
      IN  <<[entity_id |-> entity.id,
             current_stop_id |-> current_stop_id,
             previous_stop_id |-> IF prev_known THEN prev_entry.stop_id ELSE NoStop,
             next_stop_id |-> IF next_known THEN next_entry.stop_id ELSE NoStop,
             next_stop_sequence |->
                 IF next_known THEN next_entry.stop_sequence ELSE None]>>

\* the timetables of trip t1: a stop for each of some sequence numbers
Timetables ==
    UNION {[numbers -> Stops] : numbers \in SUBSET (1..MaxSeq)}

RowsOf(timetable) ==
    {StopTimeRow("t1", n, timetable[n]) : n \in DOMAIN timetable}

\* the rows of the timetable in a CSV file, by rising or by falling
\* sequence number, after a row of another trip and before a row without a
\* sequence number
RECURSIVE FileRows(_, _, _)
FileRows(timetable, numbers, rising) ==
    IF numbers = {} THEN <<>>
    ELSE LET n == CHOOSE k \in numbers :
                    \A other \in numbers : IF rising THEN k <= other ELSE k >= other
         IN  <<StopTimeRow("t1", n, timetable[n])>>
                \o FileRows(timetable, numbers \ {n}, rising)

CsvFile(timetable, rising) ==
    <<StopTimeRow("t2", 1, "s3")>>
        \o FileRows(timetable, DOMAIN timetable, rising)
        \o <<StopTimeRow("t1", None, "s2")>>

VehicleEntities ==
    [id : {"", "e1"}, trip_id : {NoTrip, "t1"}, stop_id : Stops \cup {NoStop}]

ExtractRows ==
    /\ pc = "call_extract"
    /\ pc' = "extracted"
    /\ stops_call' =
         [stops_call EXCEPT !.rows =
             extract_vehicle_position_rows(stops_call.entity, stops_call.data)]
    /\ UNCHANGED <<outsideCalls, classify_call, alerts_call, archive_call, lookupVars>>

InitStops ==
    /\ pc = "call_extract"
    /\ dry_run = FALSE
    /\ CycleIdle
    /\ FailureIdle
    /\ failure_threshold = 0
    /\ ClockIdle
    /\ ReportIdle
    /\ MaintIdle
    /\ call = NoCall
    /\ classify_call = NoCall
    /\ alerts_call = NoCall
    /\ archive_call = NoCall
    /\ lookup = NoCall
    /\ warnings = <<>>
    /\ looked_up = {}
    /\ \E entity \in VehicleEntities, dim_stops \in SUBSET Stops,
          timetable \in Timetables, has_fallback \in BOOLEAN,
          held \in {"storage", "storage_and_file", "file_rising", "file_falling"} :
         stops_call =
            [called |-> TRUE,
             entity |-> entity,
             data |-> [dim_stops |-> dim_stops,
                       dim_stop_times |->
                           IF held \in {"storage", "storage_and_file"}
                           THEN RowsOf(timetable) ELSE {},
                       has_fallback |-> has_fallback,
                       csv_rows |->
                           CASE held = "storage" -> CsvFile(<<>>, TRUE)
                             [] held = "storage_and_file" ->
                                  CsvFile([n \in DOMAIN timetable |-> "s1"], TRUE)
                             [] held = "file_rising" -> CsvFile(timetable, TRUE)
                             [] held = "file_falling" -> CsvFile(timetable, FALSE)],
             rows |-> <<>>]

NextStops == ExtractRows

SpecStops == InitStops /\ [][NextStops]_vars

(***************************************************************************)
(* The trips a DimLookup finds missing (specification SpecLookup).  Trip    *)
(* ids are numbers, in the order sorted() gives the ids.  Trip 1 is in      *)
(* dim_trips and has stop times, trip 2 is in dim_trips without stop times, *)
(* trip 3 is only in the CSV file, every later trip is nowhere.  Trips up   *)
(* to LastMixedTrip are looked up with any method in any order, the later   *)
(* ones with ensure_trip in rising order.                                   *)
(***************************************************************************)
MaxTrips == 14
SampleLimit == 10

TripIds == 1..MaxTrips
DimTrips == {1, 2}
DimStopTimesTrips == {1}
CsvTrips == {3}
\* the trips held somewhere and the first trip held nowhere
LastMixedTrip == Cardinality(DimTrips \cup CsvTrips) + 1
MissingKeys == {"trip", "route", "stop"}

\* DimLookup.__init__
NewDimLookup(stop_times_csv) ==
    [called |-> TRUE,
     _trip_routes |-> {},
     _trip_profiles |-> {},
     _trip_exists |-> {},
     _stop_times_fallback |-> stop_times_csv,
     missing |-> [key \in MissingKeys |-> {}]]

\* faulty variant of MissingAdd: nothing is recorded
MissingNotRecorded(missing, key, id) == missing

\* self.missing[key].add(id)
MissingAdd(missing, key, id) == [missing EXCEPT ![key] = @ \cup {id}]

\* sorted(values)[:limit]
RECURSIVE SortedHead(_, _)
SortedHead(values, limit) ==
    IF values = {} \/ limit = 0 THEN <<>>
    ELSE LET least == CHOOSE v \in values : \A other \in values : v <= other
         IN  <<least>> \o SortedHead(values \ {least}, limit - 1)

\* the warnings of report_missing, one for each key that has values
RECURSIVE MissingWarnings(_, _)
MissingWarnings(missing, keys) ==
    IF keys = <<>> THEN <<>>
    ELSE LET key == keys[1]
             values == missing[key]
             rest == MissingWarnings(missing, Tail(keys))
         IN  IF values = {} THEN rest
             ELSE <<[key |-> key,
                     sample |-> SortedHead(values, SampleLimit),
                     more |-> IF Cardinality(values) <= SampleLimit THEN 0
                              ELSE Cardinality(values) - SampleLimit]>> \o rest

\* the trips the writers may look up next with the method
MayLookUp(method) ==
    {trip_id \in TripIds :
        \/ trip_id <= LastMixedTrip
        \/ /\ method = "ensure_trip"
           /\ \A before \in (LastMixedTrip + 1)..(trip_id - 1) :
                 before \in lookup._trip_exists}

ensure_trip ==
    /\ pc = "resolving"
    /\ \E trip_id \in MayLookUp("ensure_trip") :
         /\ looked_up' = looked_up \cup {<<"ensure_trip", trip_id>>}
         /\ lookup' =
              IF trip_id \in lookup._trip_exists THEN lookup
              ELSE [lookup EXCEPT
                      !.missing = IF trip_id \in DimTrips THEN @
                                  ELSE MissingAdd(@, "trip", trip_id),
                      !._trip_exists = @ \cup {trip_id}]
    /\ UNCHANGED <<pc, warnings, outsideCalls, classify_call, stops_call, alerts_call, archive_call>>

get_route_for_trip ==
    /\ pc = "resolving"
    /\ \E trip_id \in MayLookUp("get_route_for_trip") :
         /\ looked_up' = looked_up \cup {<<"get_route_for_trip", trip_id>>}
         /\ lookup' =
              IF trip_id \in lookup._trip_routes THEN lookup
              ELSE [lookup EXCEPT
                      !.missing = IF trip_id \in DimTrips THEN @
                                  ELSE MissingAdd(@, "trip", trip_id),
                      !._trip_routes = @ \cup {trip_id}]
    /\ UNCHANGED <<pc, warnings, outsideCalls, classify_call, stops_call, alerts_call, archive_call>>

load_trip_profile ==
    /\ pc = "resolving"
    /\ \E trip_id \in MayLookUp("_load_trip_profile") :
         /\ looked_up' = looked_up \cup {<<"_load_trip_profile", trip_id>>}
         /\ lookup' =
              IF trip_id \in lookup._trip_profiles THEN lookup
              ELSE [lookup EXCEPT
                      !.missing =
                          IF trip_id \in DimStopTimesTrips THEN @
                          ELSE IF lookup._stop_times_fallback
                               THEN IF trip_id \in CsvTrips THEN @
                                    ELSE MissingAdd(@, "trip", trip_id)
                          ELSE MissingAdd(@, "trip", trip_id),
                      !._trip_profiles = @ \cup {trip_id}]
    /\ UNCHANGED <<pc, warnings, outsideCalls, classify_call, stops_call, alerts_call, archive_call>>

report_missing ==
    /\ pc = "resolving"
    /\ pc' = "reported"
    /\ warnings' = warnings \o MissingWarnings(lookup.missing, <<"trip", "route", "stop">>)
    /\ lookup' = [lookup EXCEPT !.missing = [key \in MissingKeys |-> {}]]
    /\ UNCHANGED <<looked_up, outsideCalls, classify_call, stops_call, alerts_call, archive_call>>

\* a writer raises before the report: the exception leaves poll_once and
\* the loop, and no report is made
WriterRaises ==
    /\ pc = "resolving"
    /\ pc' = "raised"
    /\ UNCHANGED <<lookupVars, outsideCalls, classify_call, stops_call, alerts_call, archive_call>>

\* the next cycle that writes makes its own DimLookup
NextLookup ==
    /\ pc = "reported"
    /\ pc' = "resolving"
    /\ lookup' = NewDimLookup(lookup._stop_times_fallback)
    /\ warnings' = <<>>
    /\ looked_up' = {}
    /\ UNCHANGED <<outsideCalls, classify_call, stops_call, alerts_call, archive_call>>

InitLookup ==
    /\ pc = "resolving"
    /\ dry_run = FALSE
    /\ CycleIdle
    /\ FailureIdle
    /\ failure_threshold = 0
    /\ ClockIdle
    /\ ReportIdle
    /\ MaintIdle
    /\ call = NoCall
    /\ classify_call = NoCall
    /\ stops_call = NoCall
    /\ alerts_call = NoCall
    /\ archive_call = NoCall
    /\ \E stop_times_csv \in BOOLEAN : lookup = NewDimLookup(stop_times_csv)
    /\ warnings = <<>>
    /\ looked_up = {}

NextLookupSlice ==
    \/ ensure_trip
    \/ get_route_for_trip
    \/ load_trip_profile
    \/ report_missing
    \/ WriterRaises
    \/ NextLookup

SpecLookup == InitLookup /\ [][NextLookupSlice]_vars

(***************************************************************************)
(* The child rows of the alerts (specification SpecAlerts): store_alerts    *)
(* on a message of one or two alert entities, into the empty tables of a    *)
(* new snapshot.  A table is the list of its rows, a row has its primary    *)
(* key and the other columns.                                               *)
(***************************************************************************)
MaxInformed == 2
MaxPeriods == 2

AlertIds == {"a1", "a2"}
InformedEntity(route_id, stop_id, trip_id) ==
    [route_id |-> route_id, stop_id |-> stop_id, trip_id |-> trip_id]
InformedEntities ==
    {InformedEntity("r1", "", ""), InformedEntity("", "s1", ""),
     InformedEntity("", "", "t1")}
AlertEntities ==
    [id : AlertIds \cup {""},
     informed_entity : UNION {[1..n -> InformedEntities] : n \in 0..MaxInformed},
     active_period : 0..MaxPeriods]
AlertMessages ==
    {<<entity>> : entity \in AlertEntities}
        \cup {<<first, second>> : first \in AlertEntities, second \in AlertEntities}

EmptyTable == [rows |-> <<>>, raised |-> FALSE]
NewSnapshot == 1

\* faulty variant of InsertOnConflictDoNothing: INSERT without ON CONFLICT,
\* a row whose primary key is in the table raises
InsertPlain(table, row) ==
    IF \E k \in 1..Len(table.rows) : table.rows[k].key = row.key
    THEN [table EXCEPT !.raised = TRUE]
    ELSE [table EXCEPT !.rows = Append(@, row)]

\* INSERT ... ON CONFLICT DO NOTHING of one row
InsertOnConflictDoNothing(table, row) ==
    IF \E k \in 1..Len(table.rows) : table.rows[k].key = row.key
    THEN table
    ELSE [table EXCEPT !.rows = Append(@, row)]

\* execute_batch of the statement over the rows, in their order
RECURSIVE execute_batch(_, _)
execute_batch(table, rows) ==
    IF rows = <<>> \/ table.raised THEN table
    ELSE execute_batch(InsertOnConflictDoNothing(table, rows[1]), Tail(rows))

\* the rows of a set, in the order the set is iterated
RECURSIVE RowsOfSet(_)
RowsOfSet(rows) ==
    IF rows = {} THEN <<>>
    ELSE LET row == CHOOSE r \in rows : TRUE
         IN  <<row>> \o RowsOfSet(rows \ {row})

\* route_rows, stop_rows and trip_rows: the (alert id, id) pairs of the
\* informed entities whose id the lookup knows
InformedRows(message, field) ==
    {[key |-> <<NewSnapshot, message[k].id, message[k].informed_entity[n][field]>>]
        : <<k, n>> \in
            {<<k, n>> \in (1..Len(message)) \X (1..MaxInformed) :
                /\ message[k].id # ""
                /\ n <= Len(message[k].informed_entity)
                /\ message[k].informed_entity[n][field] # ""}}

\* period_rows: a row for every active period of every alert entity, in the
\* order of the message; the period of entity k starts at k
RECURSIVE PeriodRowsOf(_, _, _)
PeriodRowsOf(entity, position, period_index) ==
    IF period_index >= entity.active_period THEN <<>>
    ELSE <<[key |-> <<NewSnapshot, entity.id, period_index>>,
            active_start_utc |-> position]>>
            \o PeriodRowsOf(entity, position, period_index + 1)

RECURSIVE PeriodRows(_, _)
PeriodRows(message, position) ==
    IF position > Len(message) THEN <<>>
    ELSE (IF message[position].id = "" THEN <<>>
          ELSE PeriodRowsOf(message[position], position, 0))
            \o PeriodRows(message, position + 1)

\* base_rows: one row for each alert id (one language)
BaseRows(message) ==
    {[key |-> <<NewSnapshot, message[k].id, "und">>]
        : k \in {k \in 1..Len(message) : message[k].id # ""}}

\* store_alerts: the alert tables after the call
AlertTablesAfter(message, tables) ==
    IF BaseRows(message) = {} THEN tables
    ELSE [rt_alerts |-> execute_batch(tables.rt_alerts, RowsOfSet(BaseRows(message))),
          rt_alert_routes |->
              execute_batch(tables.rt_alert_routes,
                            RowsOfSet(InformedRows(message, "route_id"))),
          rt_alert_stops |->
              execute_batch(tables.rt_alert_stops,
                            RowsOfSet(InformedRows(message, "stop_id"))),
          rt_alert_trips |->
              execute_batch(tables.rt_alert_trips,
                            RowsOfSet(InformedRows(message, "trip_id"))),
          rt_alert_active_periods |->
              execute_batch(tables.rt_alert_active_periods,
                            PeriodRows(message, 1))]

AlertTables ==
    {"rt_alerts", "rt_alert_routes", "rt_alert_stops", "rt_alert_trips",
     "rt_alert_active_periods"}

StoreAlerts ==
    /\ pc = "call_store_alerts"
    /\ pc' = "alerts_stored"
    /\ alerts_call' =
         [alerts_call EXCEPT !.tables =
             AlertTablesAfter(alerts_call.message, alerts_call.tables)]
    /\ UNCHANGED <<outsideCalls, classify_call, stops_call, archive_call, lookupVars>>

InitAlerts ==
    /\ pc = "call_store_alerts"
    /\ dry_run = FALSE
    /\ CycleIdle
    /\ FailureIdle
    /\ failure_threshold = 0
    /\ ClockIdle
    /\ ReportIdle
    /\ MaintIdle
    /\ call = NoCall
    /\ classify_call = NoCall
    /\ stops_call = NoCall
    /\ lookup = NoCall
    /\ warnings = <<>>
    /\ looked_up = {}
    /\ archive_call = NoCall
    /\ \E message \in AlertMessages :
         alerts_call = [called |-> TRUE,
                        message |-> message,
                        tables |-> [name \in AlertTables |-> EmptyTable]]

NextAlerts == StoreAlerts

SpecAlerts == InitAlerts /\ [][NextAlerts]_vars

(***************************************************************************)
(* One archive_day call of archive_db_snapshots.py (specification           *)
(* SpecArchive): the rows of two of the tables for the snapshot ids of the  *)
(* date, one text column each, whose value may hold a line break.  A text   *)
(* is the sequence of its characters.                                       *)
(***************************************************************************)
MaxRows == 2

Newline == "\n"
Quote == "\""
Header == <<"h", Newline>>
Values == {<<"a">>, <<"a", "a">>, <<"a", Newline, "b">>}
ArchivedTables == {"rt_snapshots", "rt_alerts"}
SelectedRows == UNION {[1..n -> Values] : n \in 0..MaxRows}

\* COPY (...) TO STDOUT WITH CSV HEADER: a value with a line break is quoted
RECURSIVE CsvLines(_)
CsvLines(rows) ==
    IF rows = <<>> THEN <<>>
    ELSE (IF \E k \in 1..Len(rows[1]) : rows[1][k] = Newline
          THEN <<Quote>> \o rows[1] \o <<Quote>>
          ELSE rows[1])
            \o <<Newline>> \o CsvLines(Tail(rows))

CopyCsv(rows) == Header \o CsvLines(rows)

\* str.splitlines
RECURSIVE SplitLines(_, _)
SplitLines(text, line) ==
    IF text = <<>> THEN IF line = <<>> THEN <<>> ELSE <<line>>
    ELSE IF text[1] = Newline THEN <<line>> \o SplitLines(Tail(text), <<>>)
    ELSE SplitLines(Tail(text), Append(line, text[1]))

\* str.encode("utf-8") and bytes.decode("utf-8") on these characters
Utf8(char) ==
    CASE char = "h" -> 104
      [] char = "a" -> 97
      [] char = "b" -> 98
      [] char = Newline -> 10
      [] char = Quote -> 34

Encode(text) == [k \in 1..Len(text) |-> Utf8(text[k])]
Decode(bytes) ==
    [k \in 1..Len(bytes) |->
        CHOOSE char \in {"h", "a", "b", Newline, Quote} : Utf8(char) = bytes[k]]

\* gzip.compress and gzip.decompress: the runs of equal bytes, and back
RECURSIVE Gzip(_)
Gzip(bytes) ==
    IF bytes = <<>> THEN <<>>
    ELSE LET rest == Gzip(Tail(bytes))
         IN  IF rest # <<>> /\ rest[1].byte = bytes[1]
             THEN <<[byte |-> bytes[1], times |-> rest[1].times + 1]>> \o Tail(rest)
             ELSE <<[byte |-> bytes[1], times |-> 1]>> \o rest

RECURSIVE Gunzip(_)
Gunzip(blob) ==
    IF blob = <<>> THEN <<>>
    ELSE [k \in 1..blob[1].times |-> blob[1].byte] \o Gunzip(Tail(blob))

NoBlob == <<>>       \* None

\* dump_table_to_gzip, given what the SELECT returns
dump_table_to_gzip(rows) ==
    LET text == CopyCsv(rows)
        lines == SplitLines(text, <<>>)
    IN  IF text = <<>> THEN [compressed |-> NoBlob, row_count |-> 0]
        ELSE [compressed |-> Gzip(Encode(text)),
              row_count |-> IF Len(lines) - 1 > 0 THEN Len(lines) - 1 ELSE 0]

archive_day ==
    /\ pc = "call_archive_day"
    /\ pc' = "archive_day_returned"
    /\ LET live == archive_call.live
           dumped == [table \in ArchivedTables |-> dump_table_to_gzip(live[table])]
           row_counts == [table \in ArchivedTables |-> dumped[table].row_count]
       IN  archive_call' =
             IF live["rt_snapshots"] = <<>> THEN archive_call
             ELSE IF archive_call.archive_exists /\ ~archive_call.force
                  THEN archive_call
             ELSE IF archive_call.dry_run
                  THEN [archive_call EXCEPT !.summary = <<row_counts>>]
             ELSE [archive_call EXCEPT
                     !.archive_exists = TRUE,
                     !.archive = [table \in ArchivedTables |-> dumped[table].compressed],
                     !.live = [table \in ArchivedTables |-> <<>>],
                     !.summary = <<row_counts>>]
    /\ UNCHANGED <<outsideCalls, classify_call, stops_call, alerts_call, lookupVars>>

InitArchive ==
    /\ pc = "call_archive_day"
    /\ dry_run = FALSE
    /\ CycleIdle
    /\ FailureIdle
    /\ failure_threshold = 0
    /\ ClockIdle
    /\ ReportIdle
    /\ MaintIdle
    /\ call = NoCall
    /\ classify_call = NoCall
    /\ stops_call = NoCall
    /\ alerts_call = NoCall
    /\ lookup = NoCall
    /\ warnings = <<>>
    /\ looked_up = {}
    /\ \E live \in [ArchivedTables -> SelectedRows],
          archive_dry_run \in BOOLEAN, force \in BOOLEAN, archive_exists \in BOOLEAN :
         archive_call =
            [called |-> TRUE,
             dry_run |-> archive_dry_run,
             force |-> force,
             live |-> live,
             selected |-> live,
             archive_exists |-> archive_exists,
             archive |-> [table \in ArchivedTables |-> NoBlob],
             summary |-> <<>>]

NextArchive == archive_day

SpecArchive == InitArchive /\ [][NextArchive]_vars

(***************************************************************************)
(* The specifications below apply one function each to the variable call;   *)
(* every other variable stays as it is after construction.                  *)
(***************************************************************************)
outsideCall == <<envelopes, cycleVars, failureVars, failure_history,
                 clockVars, reportVars, configVars, maintVars,
                 classify_call, stops_call, alerts_call, archive_call,
                 lookupVars>>

OnlyCall ==
    /\ dry_run = FALSE
    /\ CycleIdle
    /\ FailureIdle
    /\ failure_threshold = 0
    /\ ClockIdle
    /\ ReportIdle
    /\ MaintIdle
    /\ classify_call = NoCall
    /\ stops_call = NoCall
    /\ alerts_call = NoCall
    /\ archive_call = NoCall
    /\ lookup = NoCall
    /\ warnings = <<>>
    /\ looked_up = {}

(***************************************************************************)
(* The aligned cadence (specification SpecAlign): the wall clock in whole   *)
(* seconds, the loop of main with --align-interval, each pass ending after  *)
(* some seconds.                                                            *)
(***************************************************************************)
MaxNow == 8
MaxAlignInterval == 3
MaxAlignOffset == 4
MaxPassSeconds == 2

\* faulty variant of _seconds_until_next_alignment: the wait is not reduced
\* modulo the interval
WholeIntervalWait(now, interval_seconds, offset_seconds) ==
    interval_seconds - ((now - offset_seconds) % interval_seconds)

\* _seconds_until_next_alignment for a positive interval
_seconds_until_next_alignment(now, interval_seconds, offset_seconds) ==
    LET remainder == (now - offset_seconds) % interval_seconds
        wait == (interval_seconds - remainder) % interval_seconds
    IN  wait

\* main: align_offset = float(align_offset) % align_interval
NormalOffset(align_interval, align_offset) == align_offset % align_interval

\* main, lines "if align_interval <= 0: raise SystemExit"
RejectInterval ==
    /\ pc = "configure_alignment"
    /\ call.align_interval <= 0
    /\ pc' = "rejected"
    /\ UNCHANGED <<call, outsideCall>>

AcceptInterval ==
    /\ pc = "configure_alignment"
    /\ call.align_interval > 0
    /\ pc' = "align"
    /\ call' = [call EXCEPT
                  !.offset = NormalOffset(call.align_interval, call.align_offset)]
    /\ UNCHANGED outsideCall

\* wait_for_alignment: sleep for the delay
wait_for_alignment ==
    /\ pc = "align"
    /\ LET delay == _seconds_until_next_alignment(call.now, call.align_interval,
                                                  call.offset)
       IN  /\ call.now + delay <= MaxNow
           /\ call' = [call EXCEPT !.now = @ + delay,
                                   !.asked_at = call.now,
                                   !.delay = delay]
    /\ pc' = "aligned"
    /\ UNCHANGED outsideCall

\* the pass after the wait: a maintenance run and continue, or a cycle
AlignedPass ==
    /\ pc = "aligned"
    /\ \E seconds \in 0..MaxPassSeconds, cycle \in BOOLEAN :
         /\ call.now + seconds <= MaxNow
         /\ call' = [call EXCEPT
                       !.now = @ + seconds,
                       !.cycle_starts = IF cycle THEN @ \cup {call.now} ELSE @]
    /\ pc' = "align"
    /\ UNCHANGED outsideCall

InitAlign ==
    /\ pc = "configure_alignment"
    /\ OnlyCall
    /\ \E now \in 0..MaxNow, align_interval \in (-1)..MaxAlignInterval,
          align_offset \in (-MaxAlignOffset)..MaxAlignOffset :
         call = [called |-> TRUE,
                 now |-> now,
                 align_interval |-> align_interval,
                 align_offset |-> align_offset,
                 offset |-> align_offset,
                 asked_at |-> now,
                 delay |-> 0,
                 cycle_starts |-> {}]

NextAlign ==
    \/ RejectInterval
    \/ AcceptInterval
    \/ wait_for_alignment
    \/ AlignedPass

SpecAlign == InitAlign /\ [][NextAlign]_vars

(***************************************************************************)
(* archive_snapshots.py (specification SpecFolders): the entries of the     *)
(* root directory.  Entry 0 has a name that is no timestamp, entry n > 0    *)
(* has the timestamp n as its name; beside an entry there may be its        *)
(* <name>.tar.gz and a left-over <name>.tar.gz.tmp.                         *)
(***************************************************************************)
MaxStamp == 2

EntryNames == 0..MaxStamp
NoEntryAt == [kind |-> "none", files |-> ""]
Entry(kind, files) == [kind |-> kind, files |-> files]
EntryStates ==
    {NoEntryAt, Entry("file", "payload"), Entry("dir", "older"),
     Entry("dir", "recent")}
NoArchive == ""
ArchiveStates == {NoArchive, "stale"}

\* datetime.strptime(entry.name, TIMESTAMP_FORMAT): None for ValueError
ParseSnapshotName(name) == IF name \in 1..MaxStamp THEN name ELSE None

\* faulty variant of WithinRetention: the cutoff instant itself is kept
AtOrAfterCutoff(snapshot_dt, cutoff) == snapshot_dt >= cutoff

\* snapshot_dt > cutoff
WithinRetention(snapshot_dt, cutoff) == snapshot_dt > cutoff

\* create_archive and shutil.rmtree on one snapshot directory
create_archive(fs, name) ==
    [fs EXCEPT !.tmps[name] = FALSE,
               !.archives[name] = fs.dirs[name].files,
               !.dirs[name] = NoEntryAt]

\* the body of the loop of archive_snapshots for one entry of the root
ArchiveEntry(fs, name, cutoff, no_changes, force) ==
    IF fs.dirs[name].kind # "dir" THEN fs
    ELSE IF ParseSnapshotName(name) = None THEN fs
    ELSE IF WithinRetention(ParseSnapshotName(name), cutoff) THEN fs
    ELSE IF fs.archives[name] # NoArchive /\ ~force THEN fs
    ELSE IF no_changes THEN fs
    ELSE create_archive([fs EXCEPT !.archives[name] = NoArchive], name)

archive_snapshots ==
    /\ pc = "archiving"
    /\ call' = [call EXCEPT
                  !.fs = ArchiveEntry(call.fs, call.entry, call.cutoff,
                                      call.dry_run, call.force),
                  !.entry = @ + 1]
    /\ pc' = IF call.entry = MaxStamp THEN "folders_archived" ELSE "archiving"
    /\ UNCHANGED outsideCall

InitFolders ==
    /\ pc = "archiving"
    /\ OnlyCall
    /\ \E dirs \in [EntryNames -> EntryStates],
          archives \in [EntryNames -> ArchiveStates],
          tmps \in [EntryNames -> BOOLEAN],
          cutoff \in 0..MaxStamp, no_changes \in BOOLEAN, force \in BOOLEAN :
         /\ dirs[0].kind = "dir"
         /\ ~tmps[0]
         /\ call = [called |-> TRUE,
                    dry_run |-> no_changes,
                    force |-> force,
                    cutoff |-> cutoff,
                    fs |-> [dirs |-> dirs, archives |-> archives, tmps |-> tmps],
                    before |-> [dirs |-> dirs, archives |-> archives, tmps |-> tmps],
                    entry |-> 0]

NextFolders == archive_snapshots

SpecFolders == InitFolders /\ [][NextFolders]_vars

(***************************************************************************)
(* The caches of one DimLookup (specification SpecCache): the five checks   *)
(* on a few keys, while the reference tables may change between two checks. *)
(* A check is <<kind, key>>; trip 1, route 1 and stop 1 are asked for in    *)
(* reference storage, trip 2 also in the CSV file.                          *)
(***************************************************************************)
MaxQueries == 2

Checks ==
    {<<"ensure_trip", 1>>, <<"ensure_trip", 2>>, <<"get_route_for_trip", 1>>,
     <<"_load_trip_profile", 1>>, <<"_load_trip_profile", 2>>,
     <<"ensure_route", 1>>, <<"ensure_stop", 1>>}

\* the table a check reads and the missing set it records in
TableOf(kind) ==
    CASE kind \in {"ensure_trip", "get_route_for_trip"} -> "dim_trips"
      [] kind = "_load_trip_profile" -> "dim_stop_times"
      [] kind = "ensure_route" -> "dim_routes"
      [] kind = "ensure_stop" -> "dim_stops"

CategoryOf(kind) ==
    CASE kind \in {"ensure_trip", "get_route_for_trip", "_load_trip_profile"} -> "trip"
      [] kind = "ensure_route" -> "route"
      [] kind = "ensure_stop" -> "stop"

ReferenceTables == {"dim_trips", "dim_stop_times", "dim_routes", "dim_stops", "csv"}
KeysOfTable(table) == IF table \in {"dim_trips", "dim_stop_times", "csv"} THEN {1, 2} ELSE {1}

\* faulty variant of InCache: a negative result is not taken from the cache
PositiveInCache(cache, check) == cache[check] = "yes"

\* trip_id in self._trip_exists, and the like
InCache(cache, check) == cache[check] # "none"

\* the answer of reference storage, and for the profile of the CSV file
\* when storage has no rows
Answer(storage, check) ==
    IF check[2] \in storage[TableOf(check[1])] THEN "yes"
    ELSE IF check[1] = "_load_trip_profile" /\ check[2] \in storage["csv"]
         THEN "yes"
    ELSE "no"

ReadsCsv(storage, check) ==
    /\ check[1] = "_load_trip_profile"
    /\ check[2] \notin storage["dim_stop_times"]

\* ensure_trip, get_route_for_trip, _load_trip_profile, ensure_route,
\* ensure_stop: the cached answer, or one query, whose answer is cached
CachedCheck ==
    /\ pc = "checking"
    /\ \E check \in Checks :
         IF InCache(call.cache, check)
         THEN call' = [call EXCEPT
                         !.answers[check] = @ \cup {call.cache[check]},
                         !.hit = <<check>>]
         ELSE /\ call.queries[check] < MaxQueries
              /\ LET answer == Answer(call.storage, check)
                 IN  call' = [call EXCEPT
                         !.queries[check] = @ + 1,
                         !.csv_reads[check] =
                             IF ReadsCsv(call.storage, check) THEN @ + 1 ELSE @,
                         !.cache[check] = answer,
                         !.missing[CategoryOf(check[1])] =
                             IF answer = "no" THEN @ \cup {check[2]} ELSE @,
                         !.answers[check] = @ \cup {answer},
                         !.hit = <<>>]
    /\ UNCHANGED <<pc, outsideCall>>

\* another process rewrites the reference tables and the file
ReferenceChanges ==
    /\ pc = "checking"
    /\ call' = [call EXCEPT
                  !.storage = [table \in ReferenceTables |->
                                  KeysOfTable(table) \ call.storage[table]]]
    /\ UNCHANGED <<pc, outsideCall>>

InitCache ==
    /\ pc = "checking"
    /\ OnlyCall
    /\ call = [called |-> TRUE,
               storage |-> [table \in ReferenceTables |->
                               IF table \in {"dim_trips", "dim_routes"}
                               THEN {1} ELSE {}],
               cache |-> [check \in Checks |-> "none"],
               missing |-> [key \in MissingKeys |-> {}],
               queries |-> [check \in Checks |-> 0],
               csv_reads |-> [check \in Checks |-> 0],
               answers |-> [check \in Checks |-> {}],
               hit |-> <<>>]

NextCache ==
    \/ CachedCheck
    \/ ReferenceChanges

SpecCache == InitCache /\ [][NextCache]_vars

(***************************************************************************)
(* store_trip_delays (specification SpecDelays): a message of up to two     *)
(* trip updates with up to MaxUpdates stop time updates each.  Trip t9 and  *)
(* stop s9 are not in the reference tables.  A dict is the set of its       *)
(* (key, value) entries.                                                    *)
(***************************************************************************)
MaxUpdates == 2

StopTimeUpdates == [stop_id : {"s1", "s9"}, delay : {1, 2}]
TripUpdates ==
    [trip_id : {"t1", "t2", "t9"},
     stop_time_update : UNION {[1..n -> StopTimeUpdates] : n \in 0..MaxUpdates}]
TripUpdateMessages ==
    {<<>>} \cup {<<entity>> : entity \in TripUpdates}
        \cup {<<first, second>> : first \in TripUpdates, second \in TripUpdates}

\* lookup.ensure_trip and lookup.ensure_stop on these ids
TripInDimTrips(trip_id) == trip_id \in {"t1", "t2"}
StopInDimStops(stop_id) == stop_id \in {"s1"}

\* faulty variant of DictSet: the first value of a key is kept
DictSetDefault(dict, key, value) ==
    IF \E e \in dict : e.key = key THEN dict
    ELSE dict \cup {[key |-> key, value |-> value]}

\* dict[key] = value
DictSet(dict, key, value) ==
    {e \in dict : e.key # key} \cup {[key |-> key, value |-> value]}

\* the inner loop: rows_by_key after the stop time updates from n on
RECURSIVE RowsOfUpdates(_, _, _, _)
RowsOfUpdates(rows_by_key, trip_id, updates, n) ==
    IF n > Len(updates) THEN rows_by_key
    ELSE RowsOfUpdates(
            IF StopInDimStops(updates[n].stop_id)
            THEN DictSet(rows_by_key, <<trip_id, updates[n].stop_id>>, updates[n].delay)
            ELSE rows_by_key,
            trip_id, updates, n + 1)

\* the outer loop: rows_by_key after the entities from k on
RECURSIVE RowsByKey(_, _, _)
RowsByKey(rows_by_key, message, k) ==
    IF k > Len(message) THEN rows_by_key
    ELSE RowsByKey(
            IF TripInDimTrips(message[k].trip_id)
            THEN RowsOfUpdates(rows_by_key, message[k].trip_id,
                               message[k].stop_time_update, 1)
            ELSE rows_by_key,
            message, k + 1)

\* store_trip_delays: the rows inserted, the count and the lookup returned
TripDelaysStored(message) ==
    LET rows_by_key == RowsByKey({}, message, 1)
    IN  [rt_trip_delays |-> RowsOfSet(rows_by_key),
         count |-> Cardinality(rows_by_key),
         delay_lookup |-> rows_by_key]

StoreTripDelays ==
    /\ pc = "call_store_trip_delays"
    /\ pc' = "trip_delays_stored"
    /\ call' = [call EXCEPT !.stored = TripDelaysStored(call.message)]
    /\ UNCHANGED outsideCall

InitDelays ==
    /\ pc = "call_store_trip_delays"
    /\ OnlyCall
    /\ \E message \in TripUpdateMessages :
         call = [called |-> TRUE,
                 message |-> message,
                 stored |-> [rt_trip_delays |-> <<>>, count |-> 0, delay_lookup |-> {}]]

NextDelays == StoreTripDelays

SpecDelays == InitDelays /\ [][NextDelays]_vars

(***************************************************************************)
(* The rail tables over several cycles (specification SpecPrune): every     *)
(* cycle captures at a later time and stores a vehicle feed; v1 and v2 are  *)
(* rail vehicles (label R...), b1 is not.                                   *)
(***************************************************************************)
MaxPolledAt == 4
MaxRetention == 2

VehicleRecords == SUBSET {[vehicle_key |-> "v1", rodalies |-> TRUE],
                          [vehicle_key |-> "v2", rodalies |-> TRUE],
                          [vehicle_key |-> "b1", rodalies |-> FALSE]}

\* DELETE FROM table WHERE polled_at_utc < cutoff
DeleteOlder(table, cutoff) == {row \in table : row.polled_at_utc >= cutoff}

\* store_vehicle_positions on the rail tables
RailTablesAfter(tables, polled_at, records, history_retention) ==
    IF records = {} THEN tables
    ELSE LET rodalies_records == {record \in records : record.rodalies}
             rows == {[vehicle_key |-> record.vehicle_key, polled_at_utc |-> polled_at] :
                          record \in rodalies_records}
             history == tables.history \cup rows
             current == {row \in tables.current :
                            \A new \in rows : new.vehicle_key # row.vehicle_key} \cup rows
         IN  IF history_retention # None
             THEN [history |-> DeleteOlder(history, polled_at - history_retention),
                   current |-> DeleteOlder(current, polled_at - history_retention)]
             ELSE [history |-> history, current |-> current]

\* a cycle that stores a snapshot at polled_at and commits
CommittedCycle ==
    /\ pc = "polling_vehicles"
    /\ \E polled_at \in (call.now + 1)..MaxPolledAt, records \in VehicleRecords :
         call' = [call EXCEPT
                    !.now = polled_at,
                    !.polled_at = polled_at,
                    !.records = records,
                    !.tables = RailTablesAfter(call.tables, polled_at, records,
                                               call.vehicle_history_retention)]
    /\ UNCHANGED <<pc, outsideCall>>

\* a cycle that is rolled back (a feed missing, or every header stale)
RolledBackCycle ==
    /\ pc = "polling_vehicles"
    /\ call.now < MaxPolledAt
    /\ call' = [call EXCEPT !.now = @ + 1]
    /\ UNCHANGED <<pc, outsideCall>>

InitPrune ==
    /\ pc = "polling_vehicles"
    /\ OnlyCall
    /\ \E retention \in 1..MaxRetention :
         call = [called |-> TRUE,
                 now |-> 0,
                 polled_at |-> None,
                 records |-> {},
                 vehicle_history_retention |-> retention,
                 tables |-> [history |-> {}, current |-> {}]]

NextPrune == CommittedCycle \/ RolledBackCycle

SpecPrune == InitPrune /\ [][NextPrune]_vars

(***************************************************************************)
(* The rows of one cycle against the reference tables (specification        *)
(* SpecIntegrity): the tables may hold trip t1 (with or without a route),   *)
(* route r1 and stops s1 and s2; the timetable of t1 is s1, s2.             *)
(***************************************************************************)
NoRoute == ""         \* a route id that is None or empty

ReferenceData ==
    {[dim_trips |-> dim_trips, dim_routes |-> dim_routes, dim_stops |-> dim_stops,
      dim_stop_times |-> {StopTimeRow("t1", 1, "s1"), StopTimeRow("t1", 2, "s2")},
      has_fallback |-> FALSE, csv_rows |-> <<>>] :
        dim_trips \in {{}, {[trip_id |-> "t1", route_id |-> NoRoute]},
                       {[trip_id |-> "t1", route_id |-> "r1"]}},
        dim_routes \in SUBSET {"r1"},
        dim_stops \in SUBSET {"s1", "s2"}}

VehicleEntity == [id : {"", "e1", "e2"}, trip_id : {NoTrip, "t1"}, stop_id : {NoStop, "s1", "s2"}]
VehicleMessages ==
    {<<entity>> : entity \in VehicleEntity}
        \cup {<<first, second>> : first \in VehicleEntity, second \in VehicleEntity}
DelayUpdates == [trip_id : {NoTrip, "t1"}, stop_id : {NoStop, "s1", "s2"}]
InformedIds == [route_id : {NoRoute, "r1"}, stop_id : {NoStop, "s1"}, trip_id : {NoTrip, "t1"}]

\* DimLookup.ensure_trip, get_route_for_trip and ensure_route on the tables
TripExists(data, trip_id) ==
    /\ trip_id # NoTrip
    /\ \E row \in data.dim_trips : row.trip_id = trip_id

RouteOfTrip(data, trip_id) ==
    IF trip_id = NoTrip \/ ~\E row \in data.dim_trips : row.trip_id = trip_id
    THEN NoRoute
    ELSE (CHOOSE row \in data.dim_trips : row.trip_id = trip_id).route_id

RouteExists(data, route_id) ==
    /\ route_id # NoRoute
    /\ route_id \in data.dim_routes

\* faulty variant of ResolvedRoute: the route of the trip is not checked
UncheckedRoute(data, raw_trip_id) ==
    IF TripExists(data, raw_trip_id) THEN RouteOfTrip(data, raw_trip_id) ELSE NoRoute

\* route_id of a vehicle row
ResolvedRoute(data, raw_trip_id) ==
    LET route_id == IF TripExists(data, raw_trip_id)
                    THEN RouteOfTrip(data, raw_trip_id) ELSE NoRoute
    IN  IF route_id # NoRoute /\ ~RouteExists(data, route_id) THEN NoRoute
        ELSE route_id

\* the VehiclePositionRecord of one entity
VehiclePositionRecord(data, entity) ==
    LET raw_trip_id == entity.trip_id
        current_stop_id ==
            IF ensure_stop(data, entity.stop_id) THEN entity.stop_id ELSE NoStop
        context ==
            IF current_stop_id # NoStop /\ raw_trip_id # NoTrip
            THEN get_stop_context(data, raw_trip_id, current_stop_id)
            ELSE 0
        prev_entry == IF context = 0 THEN NoEntry
                      ELSE get_adjacent_stop(data, raw_trip_id, context, FALSE)
        next_entry == IF context = 0 THEN NoEntry
                      ELSE get_adjacent_stop(data, raw_trip_id, context, TRUE)
    IN  [trip_id |-> IF TripExists(data, raw_trip_id) THEN raw_trip_id ELSE NoTrip,
         route_id |-> ResolvedRoute(data, raw_trip_id),
         current_stop_id |-> current_stop_id,
         previous_stop_id |->
             IF prev_entry # NoEntry /\ ensure_stop(data, prev_entry.stop_id)
             THEN prev_entry.stop_id ELSE NoStop,
         next_stop_id |->
             IF next_entry # NoEntry /\ ensure_stop(data, next_entry.stop_id)
             THEN next_entry.stop_id ELSE NoStop]

\* records_by_entity after the entities from k on
RECURSIVE RecordsByEntity(_, _, _, _)
RecordsByEntity(records_by_entity, data, message, k) ==
    IF k > Len(message) THEN records_by_entity
    ELSE RecordsByEntity(
            IF message[k].id = "" THEN records_by_entity
            ELSE DictSet(records_by_entity, message[k].id,
                         VehiclePositionRecord(data, message[k])),
            data, message, k + 1)

\* the (trip, stop) key of a stop time update that store_trip_delays keeps
DelayKeys(data, update) ==
    IF TripExists(data, update.trip_id) /\ ensure_stop(data, update.stop_id)
    THEN {<<update.trip_id, update.stop_id>>}
    ELSE {}

\* route_rows, stop_rows and trip_rows of one informed entity of alert a1
AlertChildRows(data, informed) ==
    [rt_alert_routes |-> IF RouteExists(data, informed.route_id)
                         THEN {<<"a1", informed.route_id>>} ELSE {},
     rt_alert_stops |-> IF ensure_stop(data, informed.stop_id)
                        THEN {<<"a1", informed.stop_id>>} ELSE {},
     rt_alert_trips |-> IF TripExists(data, informed.trip_id)
                        THEN {<<"a1", informed.trip_id>>} ELSE {}]

StoreDelayRows ==
    /\ pc = "store_delays"
    /\ pc' = "store_alert_rows"
    /\ \E update \in DelayUpdates :
         call' = [call EXCEPT !.rt_trip_delays = DelayKeys(call.data, update)]
    /\ UNCHANGED outsideCall

StoreAlertRows ==
    /\ pc = "store_alert_rows"
    /\ pc' = "store_vehicle_rows"
    /\ \E informed \in InformedIds :
         call' = [call EXCEPT !.alert_rows = AlertChildRows(call.data, informed)]
    /\ UNCHANGED outsideCall

StoreVehicleRows ==
    /\ pc = "store_vehicle_rows"
    /\ pc' = "rows_stored"
    /\ \E message \in VehicleMessages :
         call' = [call EXCEPT
                    !.message = message,
                    !.rt_vehicle_positions =
                        RowsOfSet(RecordsByEntity({}, call.data, message, 1))]
    /\ UNCHANGED outsideCall

InitIntegrity ==
    /\ pc = "store_delays"
    /\ OnlyCall
    /\ \E data \in ReferenceData :
         call = [called |-> TRUE,
                 data |-> data,
                 message |-> <<>>,
                 rt_trip_delays |-> {},
                 alert_rows |-> [rt_alert_routes |-> {}, rt_alert_stops |-> {},
                                 rt_alert_trips |-> {}],
                 rt_vehicle_positions |-> <<>>]

NextIntegrity == StoreDelayRows \/ StoreAlertRows \/ StoreVehicleRows

SpecIntegrity == InitIntegrity /\ [][NextIntegrity]_vars

(***************************************************************************)
(* Archive runs over the live tables (specifications SpecArchiveRuns and    *)
(* SpecScheduledArchive).  Time is counted in ticks, TicksPerDay to the     *)
(* day; the poller stores at most one snapshot per tick, with the tick as   *)
(* its id; the child rows of a snapshot go where the snapshot goes.         *)
(***************************************************************************)
MaxTick == 5
TicksPerDay == 2
MaxRetentionDays == 1

\* polled_at_utc::date
DateOf(polled_at_utc) == polled_at_utc \div TicksPerDay

\* fetch_archive_candidates: the dates with snapshots before the cutoff
CandidateDates(rt_snapshots, cutoff) ==
    {DateOf(row.polled_at_utc) : row \in {r \in rt_snapshots : r.polled_at_utc < cutoff}}
CandidateIds(rt_snapshots, cutoff, archive_date) ==
    {row.snapshot_id : row \in {r \in rt_snapshots :
        r.polled_at_utc < cutoff /\ DateOf(r.polled_at_utc) = archive_date}}

archive_exists(rt_snapshot_archives, archive_date) ==
    \E entry \in rt_snapshot_archives : entry.archive_date = archive_date

\* INSERT ... ON CONFLICT (archive_date) DO UPDATE SET snapshot_ids = ...
UpsertArchive(rt_snapshot_archives, archive_date, snapshot_ids) ==
    {entry \in rt_snapshot_archives : entry.archive_date # archive_date}
        \cup {[archive_date |-> archive_date, snapshot_ids |-> snapshot_ids]}

\* archive_day on the tables [rt_snapshots, rt_snapshot_archives,
\* deleted]; deleted collects the ids of the rows it deleted
ArchiveDayOf(tables, archive_date, snapshot_ids, no_changes, force) ==
    IF snapshot_ids = {} THEN tables
    ELSE IF archive_exists(tables.rt_snapshot_archives, archive_date) /\ ~force THEN tables
    ELSE IF no_changes THEN tables
    ELSE [rt_snapshots |-> {row \in tables.rt_snapshots : row.snapshot_id \notin snapshot_ids},
          rt_snapshot_archives |->
              UpsertArchive(tables.rt_snapshot_archives, archive_date, snapshot_ids),
          deleted |-> tables.deleted \cup snapshot_ids]

\* main: the loop over the candidates, in date order
RECURSIVE ArchiveCandidates(_, _, _, _, _)
ArchiveCandidates(tables, dates, cutoff, no_changes, force) ==
    IF dates = {} THEN tables
    ELSE LET archive_date == CHOOSE d \in dates : \A other \in dates : d <= other
         IN  ArchiveCandidates(
                 ArchiveDayOf(tables, archive_date,
                              CandidateIds(tables.rt_snapshots, cutoff, archive_date),
                              no_changes, force),
                 dates \ {archive_date}, cutoff, no_changes, force)

\* one run of archive_db_snapshots.py
ArchiveRun(no_changes, force) ==
    /\ pc = "archive_runs"
    /\ LET cutoff == call.now - call.retention_days * TicksPerDay
       IN  call' = [call EXCEPT
                      !.db = ArchiveCandidates(call.db,
                                               CandidateDates(call.db.rt_snapshots, cutoff),
                                               cutoff, no_changes, force)]
    /\ UNCHANGED <<pc, outsideCall>>

AnyArchiveRun == \E no_changes \in BOOLEAN, force \in BOOLEAN : ArchiveRun(no_changes, force)

\* the run the poller schedules without --force
UnforcedArchiveRun == ArchiveRun(FALSE, FALSE)

\* a cycle of the poller stores a snapshot
SnapshotStored ==
    /\ pc = "archive_runs"
    /\ \A row \in call.db.rt_snapshots : row.polled_at_utc # call.now
    /\ call.now \notin call.db.deleted
    /\ call' = [call EXCEPT !.db.rt_snapshots =
                  @ \cup {[snapshot_id |-> call.now, polled_at_utc |-> call.now]}]
    /\ UNCHANGED <<pc, outsideCall>>

TimePasses ==
    /\ pc = "archive_runs"
    /\ call.now < MaxTick
    /\ call' = [call EXCEPT !.now = @ + 1]
    /\ UNCHANGED <<pc, outsideCall>>

InitArchiveRuns ==
    /\ pc = "archive_runs"
    /\ OnlyCall
    /\ \E retention_days \in 1..MaxRetentionDays :
         call = [called |-> TRUE,
                 now |-> 0,
                 retention_days |-> retention_days,
                 db |-> [rt_snapshots |-> {}, rt_snapshot_archives |-> {}, deleted |-> {}]]

NextArchiveRuns == AnyArchiveRun \/ SnapshotStored \/ TimePasses

SpecArchiveRuns == InitArchiveRuns /\ [][NextArchiveRuns]_vars

NextScheduledArchive == UnforcedArchiveRun \/ SnapshotStored \/ TimePasses

\* the process is run again and again, and time goes on
SpecScheduledArchive ==
    /\ InitArchiveRuns
    /\ [][NextScheduledArchive]_vars
    /\ WF_vars(UnforcedArchiveRun)
    /\ WF_vars(TimePasses)

(***************************************************************************)
(* The failure history over the passes of the main loop (specification      *)
(* SpecHistory): a pass runs the refresh, or the archive, or polls and      *)
(* then calls maybe_send_daily_report; one feed URL, a failure stamped      *)
(* with the date and the time of its pass; recorded keeps every stamp.      *)
(***************************************************************************)
MaxRecorded == 2

NoReport == [sent_on |-> None, report_date |-> None, listed |-> {}]

\* run_iteration: failure_history.setdefault(date_key, {}) ... times.add(time_str)
HistoryAfterFailure(history, date_key, time_str) ==
    history \cup {[date |-> date_key, time |-> time_str]}

\* failure_history.get(report_date, {})
FailuresOf(history, report_date) == {f \in history : f.date = report_date}

\* the scheduled refresh: failure_history.clear() and continue
HistoryRefreshPass ==
    /\ pc = "history_pass"
    /\ call.auto_refresh_static
    /\ RefreshDue(call.static_refresh_state, call.today, call.time_of_day)
    /\ \E refresh_ok \in BOOLEAN :
         IF refresh_ok
         THEN /\ call' = [call EXCEPT
                            !.static_refresh_state.last_refresh_date = call.today,
                            !.failure_history = {}]
              /\ pc' = "history_sleep"
         ELSE /\ pc' = "exited"
              /\ UNCHANGED call
    /\ UNCHANGED outsideCall

\* the scheduled archive and continue
HistoryArchivePass ==
    /\ pc = "history_pass"
    /\ ~(call.auto_refresh_static
         /\ RefreshDue(call.static_refresh_state, call.today, call.time_of_day))
    /\ call.auto_archive_snapshots
    /\ ArchiveDue(call.archive_state, call.today, call.time_of_day)
    /\ \E archive_ok \in BOOLEAN :
         call' = [call EXCEPT !.archive_state =
                    AfterScheduledArchive(call.archive_state, call.today, 1, archive_ok)]
    /\ pc' = "history_sleep"
    /\ UNCHANGED outsideCall

\* run_iteration, then maybe_send_daily_report
HistoryPollPass ==
    /\ pc = "history_pass"
    /\ ~(call.auto_refresh_static
         /\ RefreshDue(call.static_refresh_state, call.today, call.time_of_day))
    /\ ~(call.auto_archive_snapshots
         /\ ArchiveDue(call.archive_state, call.today, call.time_of_day))
    /\ \E fetch_failed \in BOOLEAN, posted \in BOOLEAN :
         /\ fetch_failed => Cardinality(call.recorded) < MaxRecorded
         /\ LET history == IF fetch_failed
                           THEN HistoryAfterFailure(call.failure_history,
                                                    call.today, call.time_of_day)
                           ELSE call.failure_history
                recorded == IF fetch_failed
                            THEN HistoryAfterFailure(call.recorded,
                                                     call.today, call.time_of_day)
                            ELSE call.recorded
                polled == [call EXCEPT !.failure_history = history,
                                       !.recorded = recorded]
            IN  call' =
                  IF AlreadySent(call.last_sent_date, call.today) THEN polled
                  ELSE IF call.time_of_day < ReportTime THEN polled
                  ELSE IF ~call.webhook_report \/ YearBefore1970(ReportDate(call.today))
                  THEN [polled EXCEPT !.last_sent_date = call.today]
                  ELSE IF posted
                  THEN [polled EXCEPT
                          !.last_sent_date = call.today,
                          !.delivered =
                              [sent_on |-> call.today,
                               report_date |-> ReportDate(call.today),
                               listed |-> FailuresOf(history, ReportDate(call.today))],
                          !.failure_history = Pop(history, ReportDate(call.today))]
                  ELSE polled
    /\ pc' = "history_sleep"
    /\ UNCHANGED outsideCall

\* time.sleep or wait_for_alignment before the next pass
HistorySleep ==
    /\ pc = "history_sleep"
    /\ \E c \in Later(call.today, call.time_of_day) :
         call' = [call EXCEPT !.today = c[1], !.time_of_day = c[2]]
    /\ pc' = "history_pass"
    /\ UNCHANGED outsideCall

InitHistory ==
    /\ pc = "history_pass"
    /\ OnlyCall
    /\ \E refresh \in BOOLEAN, archive \in BOOLEAN, webhook \in BOOLEAN,
          time \in Instants :
         call = [called |-> TRUE,
                 today |-> StartDay,
                 time_of_day |-> time,
                 auto_refresh_static |-> refresh,
                 auto_archive_snapshots |-> archive,
                 webhook_report |-> webhook,
                 static_refresh_state |-> [last_refresh_date |-> None],
                 archive_state |-> [last_archive_date |-> None,
                                    last_attempt_date |-> None,
                                    next_archive_date |-> None],
                 last_sent_date |-> StartDay,
                 failure_history |-> {},
                 recorded |-> {},
                 delivered |-> NoReport]

NextHistory ==
    \/ HistoryRefreshPass
    \/ HistoryArchivePass
    \/ HistoryPollPass
    \/ HistorySleep

SpecHistory == InitHistory /\ [][NextHistory]_vars

(***************************************************************************)
(* Properties of the ingestion cycle (specification Spec)                   *)
(***************************************************************************)
InCycle == pc \notin {"loop", "exited"}
Returned == pc = "done"
\* each of the three feed types has a fetched, classified feed
EveryKindFetched ==
    \A t \in FeedTypes : \E n \in 1..Len(envelopes) : envelopes[n].feed_type = t
\* the cycle that has returned committed a snapshot row
CommittedSnapshot == snapshot_id # NoId /\ snapshot_id \in db.rt_snapshots

\* envelope n is not stale: it has no header timestamp, or its feed type has
\* no stored cursor, or its header timestamp is greater than the cursor
NotStale(n) ==
    LET header == envelopes[n].header_timestamp
        previous == cursors[envelopes[n].feed_type]
    IN header = None \/ previous = None \/ header > previous

\* envelope n has a header timestamp greater than the stored cursor (a
\* missing timestamp counts as 0, a missing cursor as below every timestamp)
StrictlyNewer(n) ==
    LET header == envelopes[n].header_timestamp
        previous == cursors[envelopes[n].feed_type]
    IN IF previous = None THEN header > None ELSE header > previous

\* C1 (as amended): a cycle that returns has committed a new snapshot row if
\* and only if it is no dry run, all three feed types were fetched and
\* classified, and at least one fetched feed is not stale (no header
\* timestamp, no stored cursor, or header timestamp > cursor).
C1_SnapshotIffNotStale ==
    Returned =>
        (CommittedSnapshot <=>
            /\ ~dry_run
            /\ EveryKindFetched
            /\ \E n \in 1..Len(envelopes) : NotStale(n))

\* C1 witness: a snapshot is committed with exactly one feed newer than its
\* cursor while the two other feeds are stale against stored cursors.
C1_OneFreshKind ==
    /\ Returned /\ CommittedSnapshot
    /\ Len(envelopes) = 3
    /\ \E n \in 1..3 :
         /\ envelopes[n].header_timestamp # None
         /\ cursors[envelopes[n].feed_type] # None
         /\ envelopes[n].header_timestamp > cursors[envelopes[n].feed_type]
         /\ \A m \in (1..3) \ {n} :
              /\ envelopes[m].header_timestamp # None
              /\ cursors[envelopes[m].feed_type] # None
              /\ envelopes[m].header_timestamp <= cursors[envelopes[m].feed_type]

\* C1 (original): a snapshot row is committed in a (non-dry-run) cycle if and only if all
\* three feed types were fetched and classified and at least one fetched
\* feed has a header timestamp strictly greater than its stored cursor.
C1_Original ==
    (Returned /\ ~dry_run) =>
        (CommittedSnapshot <=>
            /\ EveryKindFetched
            /\ \E n \in 1..Len(envelopes) : StrictlyNewer(n))

\* every fetched feed has a header timestamp, the one its feed type had in
\* the last committed cycle
RepollOfCommitted ==
    /\ InCycle
    /\ db.rt_snapshots # {}
    /\ EveryKindFetched
    /\ \A n \in 1..Len(envelopes) :
         /\ envelopes[n].header_timestamp # None
         /\ envelopes[n].header_timestamp = prev_headers[envelopes[n].feed_type]

\* the same, a missing header timestamp included
RepollOfCommittedOrNone ==
    /\ InCycle
    /\ db.rt_snapshots # {}
    /\ EveryKindFetched
    /\ \A n \in 1..Len(envelopes) :
         envelopes[n].header_timestamp = prev_headers[envelopes[n].feed_type]

\* C2 (as amended): in a cycle that fetched all three feed types, each feed
\* with a header timestamp present and equal to that of the last committed
\* cycle, no step writes a row or a cursor, pending or committed, however
\* often the poll is repeated.
C2_RepollWritesNothing ==
    [][RepollOfCommitted => (db' = db /\ tx' = db)]_vars

\* C2 witness: such a re-poll has returned without a snapshot.
C2_RepollReturned ==
    /\ RepollOfCommitted
    /\ Returned
    /\ snapshot_id = NoId

\* C2 (original): the same for feeds that carry the same header timestamp as
\* in the last committed cycle, a missing one included.
C2_Original ==
    [][RepollOfCommittedOrNone => (db' = db /\ tx' = db)]_vars

\* C3: when the fetch loop has ended with a feed type missing, no step of
\* the cycle writes a snapshot row, a child row or a cursor, pending or
\* committed.
C3_MissingKindAborts ==
    [][(InCycle /\ ~EveryKindFetched) => (db' = db /\ tx' = db)]_vars

\* C3 witness: a cycle with two fetched feeds and a missing feed type has
\* returned, after an earlier cycle had committed.
C3_AbortedWithTwoFeeds ==
    /\ Returned
    /\ Len(envelopes) = 2
    /\ ~EveryKindFetched
    /\ db.rt_snapshots # {}
    /\ snapshot_id = NoId

MaxOf(S) == IF S = {} THEN NoId ELSE CHOOSE x \in S : \A y \in S : y <= x

\* what one committed cycle leaves in database d
CycleWhole(d) ==
    /\ d.rt_trip_delays = d.rt_snapshots
    /\ d.rt_alerts = d.rt_snapshots
    /\ d.rt_vehicle_positions = d.rt_snapshots
    /\ d.history_pruned_by = MaxOf(d.rt_snapshots)
    /\ \A t \in FeedTypes :
         d.rt_feed_cursors[t].last_snapshot_id \in d.rt_snapshots \cup {NoId}

C5_KeepsRunningAfterWriteError ==
    write_failed => pc # "exited"

(***************************************************************************)
(* Properties of the fetch loop and the failure tracker (SpecFailure)       *)
(***************************************************************************)
Count(url) ==
    IF url \in DOMAIN failure_state THEN failure_state[url].count ELSE 0
AlertSent(url) ==
    url \in DOMAIN failure_state /\ failure_state[url].alert_sent
LoopOver == pc = "fetching" /\ feed_idx > Len(Feeds)

\* C6: in every cycle each configured URL is fetched exactly once; a failed
\* fetch of one URL is recorded against that URL only (its count goes up by
\* one, the entries of the other URLs stay as they are), the loop goes on to
\* the next URL, and the process does not exit.
C6_EveryUrlFetchedOnce ==
    /\ [](pc = "fetching" =>
            \A n \in 1..Len(Feeds) :
                fetches[Feeds[n]] = IF n < feed_idx THEN 1 ELSE 0)
    /\ [][(pc = "fetching" /\ pc' # "fetching") =>
            \A url \in FeedUrls : fetches[url] = 1]_vars
    /\ [][(pc = "fetching" /\ fetches' # fetches) =>
            /\ pc' = "fetching"
            /\ feed_idx' = feed_idx + 1
            /\ \A url \in FeedUrls \ {Feeds[feed_idx]} :
                    /\ Count(url)' = Count(url)
                    /\ AlertSent(url)' = AlertSent(url)
            /\ \A url \in {Feeds[feed_idx]} :
                    Len(envelopes') = Len(envelopes) =>
                        Count(url)' = Count(url) + 1]_vars

\* C6 witness: the loop has ended, the first URL failed, and the two URLs
\* after it were fetched all the same.
C6_FetchedAfterFailure ==
    /\ LoopOver
    /\ Count(Feeds[1]) >= 1
    /\ Len(envelopes) = 2
    /\ \A url \in FeedUrls : fetches[url] = 1

DeliveredOn(date) ==
    {n \in 1..Len(daily_reports) : daily_reports[n].sent_on = date}

\* C9: at most one daily report is delivered per calendar day, every
\* delivered report is about the day before the day it is sent on, and on a
\* day on which a report has been delivered no report is posted again.
C9_OneReportPerDay ==
    /\ [](\A date \in StartDay..MaxDay : Cardinality(DeliveredOn(date)) <= 1)
    /\ [](\A n \in 1..Len(daily_reports) :
            daily_reports[n].report_date = daily_reports[n].sent_on - 1)
    /\ [][last_post' # last_post =>
            /\ last_post'.sent_on = today
            /\ last_post'.report_date = today - 1
            /\ DeliveredOn(today) = {}]_vars

\* C9 witness: reports have been delivered on two days, the second one in
\* the pass that has just ended, after the report time of today.
C9_ReportedOnTwoDays ==
    /\ Len(daily_reports) = 2
    /\ daily_reports[2].sent_on = today
    /\ time_of_day > ReportTime
    /\ pc = "sleep"
    /\ last_post.posted

(***************************************************************************)
(* Properties of the maintenance scheduler (SpecMaint)                      *)
(***************************************************************************)
RefreshGate ==
    /\ auto_refresh_static
    /\ ~dry_run
    /\ time_of_day >= StaticRefreshTime
    /\ static_refresh_state.last_refresh_date # today

ArchiveGate ==
    /\ auto_archive_snapshots
    /\ ~dry_run
    /\ time_of_day >= ArchiveTime
    /\ archive_state.last_archive_date # today
    /\ archive_state.last_attempt_date # today
    /\ \/ archive_state.next_archive_date = None
       \/ today >= archive_state.next_archive_date

\* C10 (as amended): a loop pass starts a scheduled refresh exactly when the
\* refresh is enabled, the run is not a dry run, the time has reached the
\* refresh time and the recorded last refresh date is not today; it starts a
\* scheduled archive run exactly when it starts no refresh, archival is
\* enabled, the run is not a dry run, the time has reached the archive time,
\* neither the recorded last archive date nor the recorded last attempt date
\* is today, and today has reached the recorded next archive date.  The
\* recorded refresh and attempt dates are the dates of the last such runs,
\* and the recorded archive date is never later than the last successful
\* archive run: a startup run before the task's time of day records no
\* success date.
C10_GatesOfAPass ==
    /\ [][pc = "loop" =>
            /\ last_pass' = "refresh" <=> RefreshGate
            /\ last_pass' = "archive" <=> (~RefreshGate /\ ArchiveGate)]_vars
    /\ [](static_refresh_state.last_refresh_date \in {None, refreshed_on})
    /\ [](archive_state.last_attempt_date \in {None, archive_tried_on})
    /\ [](archive_state.last_archive_date <= archived_on)

\* C10 witness: both tasks have run today, the archive run in the last pass,
\* and the next archive date has moved on by the interval.
C10_BothRanToday ==
    /\ pc = "sleep"
    /\ last_pass = "archive"
    /\ static_refresh_state.last_refresh_date = today
    /\ archive_state.last_archive_date = today
    /\ archive_interval_days = MaxIntervalDays
    /\ archive_state.next_archive_date = today + archive_interval_days

\* C10 (original): a loop pass starts a task exactly when the task is
\* enabled, the time has passed the task's threshold, today is neither the
\* date of the task's last run nor of its last success, and the minimum
\* interval has elapsed since its last success.  (A failed refresh ends the
\* process, so its last run is its last success; the refresh has no interval.)
C10_Original ==
    [][pc = "loop" =>
        /\ last_pass' = "refresh" <=>
            /\ auto_refresh_static /\ ~dry_run
            /\ time_of_day >= StaticRefreshTime
            /\ refreshed_on # today
        /\ last_pass' = "archive" <=>
            /\ auto_archive_snapshots /\ ~dry_run
            /\ time_of_day >= ArchiveTime
            /\ archive_tried_on # today
            /\ archived_on # today
            /\ \/ archived_on = None
               \/ today >= archived_on + archive_interval_days]_vars

\* C11: every maintenance script (refresh or archive, at startup or
\* scheduled) runs with the poller's database connection closed.
C11_ScriptsRunWithConnClosed == run_conn # "open"

\* C12: after a failed refresh the process has exited, so no further cycle
\* runs; a failed archive run does not end the process, is not repeated on
\* the day it was recorded for, and is repeated in the first pass of a later
\* day that reaches the archive gate (no refresh starts in that pass) after
\* the archive time of day.
C12_FailurePolicy ==
    /\ [](refresh_failed => pc = "exited")
    /\ [](archive_failed /\ ~refresh_failed => pc # "exited")
    /\ [][(pc = "loop" /\ archive_failed /\ today = archive_tried_on) =>
            last_pass' # "archive"]_vars
    /\ [][(pc = "loop" /\ archive_failed /\ today > archive_tried_on
           /\ time_of_day >= ArchiveTime /\ ~RefreshGate) =>
            last_pass' = "archive"]_vars

\* C12 witness: the startup archive run failed and so did the scheduled run
\* that repeated it on a later day; the loop goes on.
C12_ArchiveRetried ==
    /\ initial_archive_snapshots
    /\ archive_failed
    /\ archived_on = None
    /\ last_pass = "archive"
    /\ archive_tried_on = today
    /\ archive_interval_days = MaxIntervalDays
    /\ pc = "sleep"

(***************************************************************************)
(* Further properties of the ingestion cycle (Spec)                         *)
(***************************************************************************)
\* C13: a cycle in flight is not interrupted by a shutdown signal: from a
\* point inside run_iteration the process goes on with the cycle, and leaves
\* it for the exit only when a statement of the cycle itself has failed.
C13_CycleNotInterrupted ==
    [][(InCycle /\ ~Returned /\ pc' = "exited") => write_failed']_vars

WritingOrder ==
    <<"insert_snapshot", "store_trip_delays", "store_alerts",
      "store_vehicle_positions", "update_feed_cursor", "commit">>

\* C14: the steps of the Writing phase run in the order snapshot row, trip
\* delays, alerts, vehicle positions, cursor updates, commit, and the lookup
\* given to store_vehicle_positions is the one store_trip_delays returned
\* for the snapshot and the trip-updates feed of the same cycle.
C14_WritingOrder ==
    /\ Len(steps) <= Len(WritingOrder)
    /\ \A n \in 1..Len(steps) : steps[n] = WritingOrder[n]
    /\ (Returned /\ CommittedSnapshot) => steps = WritingOrder
    /\ (\E n \in 1..Len(steps) : steps[n] = "store_vehicle_positions") =>
            /\ snapshot_id # NoId
            /\ lookup_used =
                [snapshot_id |-> snapshot_id,
                 header_timestamp |-> indexed["trip_updates"].header_timestamp]

\* C14 witness: the second committed cycle of a run, whose positions were
\* written with the lookup of its own snapshot.
C14_SecondCycleCommitted ==
    /\ Returned
    /\ CommittedSnapshot
    /\ Cardinality(db.rt_snapshots) = 2
    /\ lookup_used.snapshot_id = snapshot_id
    /\ steps = WritingOrder

\* C15 (as amended): after a committed cycle, a kind whose feed carried a
\* header timestamp has a cursor with that timestamp and the snapshot id of
\* the cycle, upserted once; a kind whose feed carried none has the cursor it
\* had before the cycle, and it was not upserted.
C15_CursorsOfCommittedCycle ==
    (Returned /\ CommittedSnapshot) =>
        \A t \in FeedTypes :
            IF indexed[t].header_timestamp # None
            THEN /\ db.rt_feed_cursors[t] =
                        [last_header_timestamp |-> indexed[t].header_timestamp,
                         last_snapshot_id |-> snapshot_id]
                 /\ upserts[t] = 1
            ELSE /\ db.rt_feed_cursors[t].last_snapshot_id # snapshot_id
                 /\ db.rt_feed_cursors[t].last_header_timestamp = cursors[t]
                 /\ upserts[t] = 0

\* C15 witness: a committed cycle that moved the cursor of one kind and,
\* for want of a header timestamp, left the cursor of another kind at the
\* snapshot of an earlier cycle.
C15_OneCursorLeftBehind ==
    /\ Returned
    /\ CommittedSnapshot
    /\ \E t, u \in FeedTypes :
        /\ indexed[t].header_timestamp # None
        /\ db.rt_feed_cursors[t].last_snapshot_id = snapshot_id
        /\ indexed[u].header_timestamp = None
        /\ db.rt_feed_cursors[u].last_snapshot_id \notin {NoId, snapshot_id}

\* C15 (original): after every committed cycle the cursor of each kind holds
\* the header timestamp of the feed of that kind and the snapshot id of the
\* cycle.
C15_Original ==
    (Returned /\ CommittedSnapshot) =>
        \A t \in FeedTypes :
            db.rt_feed_cursors[t] =
                [last_header_timestamp |-> indexed[t].header_timestamp,
                 last_snapshot_id |-> snapshot_id]

(***************************************************************************)
(* Properties of classify_feed (SpecClassify)                               *)
(***************************************************************************)
ByUrl(url) ==
    IF "vehicle" \in UrlWords(url) THEN "vehicle_positions"
    ELSE IF "trip" \in UrlWords(url) THEN "trip_updates"
    ELSE IF "alert" \in UrlWords(url) THEN "alerts"
    ELSE Unclassifiable

ByPayloads(payloads) ==
    IF "vehicle" \in payloads THEN "vehicle_positions"
    ELSE IF "trip_update" \in payloads THEN "trip_updates"
    ELSE "alerts"

WithPayload(entity) == {n \in 1..Len(entity) : entity[n] # {}}

\* C16 (as amended): the first entity of the message that carries any
\* payload decides, vehicle before trip update before alert among the
\* payloads of that one entity; when no entity carries a payload the URL
\* substrings vehicle, trip, alert are tried in that order, and when none
\* matches the call fails.
C16_FirstPayloadDecides ==
    pc = "returned" =>
        LET entity == classify_call.message.entity
            first == CHOOSE n \in WithPayload(entity) :
                        \A k \in WithPayload(entity) : n <= k
        IN  classify_call.feed_type =
                IF WithPayload(entity) # {} THEN ByPayloads(entity[first])
                ELSE ByUrl(classify_call.url)

\* C16 witness: a message whose first entity has a trip update and whose
\* second has a vehicle position was classified, as trip updates.
C16_MixedMessageClassified ==
    /\ pc = "returned"
    /\ classify_call.message.entity = <<{"trip_update"}, {"vehicle"}>>
    /\ classify_call.feed_type = "trip_updates"

\* C16 (original): a vehicle payload in any entity makes the feed vehicle
\* positions, else a trip update in any entity makes it trip updates, else
\* an alert in any entity makes it alerts, else the URL decides.
C16_Original ==
    pc = "returned" =>
        LET all == UNION {classify_call.message.entity[n] :
                            n \in 1..Len(classify_call.message.entity)}
        IN  classify_call.feed_type =
                IF all # {} THEN ByPayloads(all) ELSE ByUrl(classify_call.url)

(***************************************************************************)
(* Properties of the previous and next stop (SpecStops)                     *)
(***************************************************************************)
\* the timetable rows of the trip of the call: those of reference storage,
\* or when it has none the valid rows of the fallback file
TimetableOfCall ==
    LET data == stops_call.data
        trip == stops_call.entity.trip_id
        stored == {r \in data.dim_stop_times : r.trip_id = trip}
        filed == {data.csv_rows[k] : k \in
                    {k \in 1..Len(data.csv_rows) :
                        /\ data.has_fallback
                        /\ data.csv_rows[k].trip_id = trip
                        /\ data.csv_rows[k].stop_sequence # None}}
    IN  IF trip = NoTrip THEN {} ELSE IF stored # {} THEN stored ELSE filed

\* the first row of the current stop of the call, in stop-sequence order
AtCurrentStop ==
    {r \in TimetableOfCall : r.stop_id = stops_call.entity.stop_id}
CurrentRow ==
    CHOOSE r \in AtCurrentStop :
        \A other \in AtCurrentStop : r.stop_sequence <= other.stop_sequence

\* the rows right before and right after the current one
Before(row) ==
    {r \in TimetableOfCall :
        /\ r.stop_sequence < row.stop_sequence
        /\ \A m \in TimetableOfCall :
              ~(r.stop_sequence < m.stop_sequence /\ m.stop_sequence < row.stop_sequence)}
After(row) ==
    {r \in TimetableOfCall :
        /\ r.stop_sequence > row.stop_sequence
        /\ \A m \in TimetableOfCall :
              ~(row.stop_sequence < m.stop_sequence /\ m.stop_sequence < r.stop_sequence)}

KnownStops(rows) == {r \in rows : r.stop_id \in stops_call.data.dim_stops}

\* C17 (as amended): an entity with an id gives one row, whatever the
\* timetable holds. When its current stop is in the stops dimension and in
\* the timetable of its trip (reference storage, else the CSV fallback), the
\* previous stop is the stop of the entry right before the first entry of
\* the current stop in stop-sequence order, the next stop that of the entry
\* right after, and next_stop_sequence the number of that next entry; each
\* of them is absent when there is no such entry or when its stop is not in
\* the stops dimension. In every other case the three are absent.
C17_AdjacentKnownStops ==
    (pc = "extracted" /\ stops_call.entity.id # "") =>
        /\ Len(stops_call.rows) = 1
        /\ LET row == stops_call.rows[1]
               resolves == /\ stops_call.entity.stop_id \in stops_call.data.dim_stops
                           /\ AtCurrentStop # {}
               before == IF resolves THEN KnownStops(Before(CurrentRow)) ELSE {}
               after == IF resolves THEN KnownStops(After(CurrentRow)) ELSE {}
           IN  /\ before = {} => row.previous_stop_id = NoStop
               /\ \A r \in before : row.previous_stop_id = r.stop_id
               /\ after = {} => /\ row.next_stop_id = NoStop
                                /\ row.next_stop_sequence = None
               /\ \A r \in after : /\ row.next_stop_id = r.stop_id
                                   /\ row.next_stop_sequence = r.stop_sequence

\* C17 witness: the timetable came from the CSV file, whose rows are not in
\* sequence order, and the row has both neighbours.
C17_NeighboursFromCsv ==
    /\ pc = "extracted"
    /\ stops_call.data.dim_stop_times = {}
    /\ Len(stops_call.data.csv_rows) > 3
    /\ stops_call.data.csv_rows[2].stop_sequence
          > stops_call.data.csv_rows[3].stop_sequence
    /\ Len(stops_call.rows) = 1
    /\ stops_call.rows[1].current_stop_id = "s2"
    /\ stops_call.rows[1].previous_stop_id = "s1"
    /\ stops_call.rows[1].next_stop_id = "s3"
    /\ stops_call.rows[1].next_stop_sequence = 3

\* C17 (original): whenever the current stop is in the timetable of the
\* trip, previous and next stop are the stops of the entries right before
\* and right after it, and next_stop_sequence is the number of the next one.
C17_Original ==
    (pc = "extracted" /\ stops_call.entity.id # "" /\ AtCurrentStop # {}) =>
        /\ Len(stops_call.rows) = 1
        /\ \A r \in Before(CurrentRow) :
              stops_call.rows[1].previous_stop_id = r.stop_id
        /\ \A r \in After(CurrentRow) :
              /\ stops_call.rows[1].next_stop_id = r.stop_id
              /\ stops_call.rows[1].next_stop_sequence = r.stop_sequence

(***************************************************************************)
(* Properties of the missing-trip report (SpecLookup)                       *)
(***************************************************************************)
\* the trips that are neither in reference storage nor in the CSV file and
\* were looked up in the cycle
AbsentLookedUp ==
    {trip_id \in TripIds \ (DimTrips \cup DimStopTimesTrips \cup CsvTrips) :
        \E made \in looked_up : made[2] = trip_id}

\* the trips a lookup of the cycle did not find where it looked
NotFound ==
    {trip_id \in TripIds :
        \/ /\ trip_id \notin DimTrips
           /\ \E made \in looked_up :
                 made[2] = trip_id /\ made[1] # "_load_trip_profile"
        \/ /\ trip_id \notin DimStopTimesTrips
           /\ ~(lookup._stop_times_fallback /\ trip_id \in CsvTrips)
           /\ <<"_load_trip_profile", trip_id>> \in looked_up}

TripWarnings == {k \in 1..Len(warnings) : warnings[k].key = "trip"}
TimesNamed(trip_id) ==
    Cardinality({<<k, n>> \in TripWarnings \X (1..SampleLimit) :
                    /\ n <= Len(warnings[k].sample)
                    /\ warnings[k].sample[n] = trip_id})

\* C18 (as amended): when the cycle reaches the report, every trip that is
\* absent from both reference storage and the CSV fallback and was looked
\* up, however often and in whatever order, is among the not-found trips
\* that the one trip warning accounts for: the warning names the ten
\* smallest not-found ids once each and counts the others as "+N more".
\* So the trip is named exactly once when fewer than ten not-found ids are
\* smaller than its own, and otherwise it is only counted, not named.
C18_MissingTripsCountedOnce ==
    pc = "reported" =>
        /\ AbsentLookedUp \subseteq NotFound
        /\ Cardinality(TripWarnings) = IF NotFound = {} THEN 0 ELSE 1
        /\ \A k \in TripWarnings :
              Len(warnings[k].sample) + warnings[k].more = Cardinality(NotFound)
        /\ \A trip_id \in TripIds :
              TimesNamed(trip_id) =
                  IF /\ trip_id \in NotFound
                     /\ Cardinality({t \in NotFound : t < trip_id}) < SampleLimit
                  THEN 1 ELSE 0

\* C18 witness: eleven absent trips were looked up, one of them by all three
\* methods, and the report names ten trips and counts the others.
C18_MoreThanTheSample ==
    /\ pc = "reported"
    /\ Cardinality(AbsentLookedUp) > SampleLimit
    /\ \A method \in {"ensure_trip", "get_route_for_trip", "_load_trip_profile"} :
          <<method, LastMixedTrip>> \in looked_up
    /\ \E k \in TripWarnings : warnings[k].more > 0

\* C18 (original): every trip absent from both reference storage and the
\* CSV fallback that was looked up appears exactly once in the report.
C18_Original ==
    pc = "reported" => \A trip_id \in AbsentLookedUp : TimesNamed(trip_id) = 1

(***************************************************************************)
(* Properties of the alert child rows (SpecAlerts)                          *)
(***************************************************************************)
ChildTables == AlertTables \ {"rt_alerts"}

\* the child keys the message asks for, however often
KeysAsked(name) ==
    LET message == alerts_call.message
        withId == {k \in 1..Len(message) : message[k].id # ""}
        field == CASE name = "rt_alert_routes" -> "route_id"
                   [] name = "rt_alert_stops" -> "stop_id"
                   [] OTHER -> "trip_id"
    IN  IF name = "rt_alert_active_periods"
        THEN {<<NewSnapshot, message[k].id, i>> :
                <<k, i>> \in {<<k, i>> \in withId \X (0..MaxPeriods) :
                                i < message[k].active_period}}
        ELSE {<<NewSnapshot, message[k].id, message[k].informed_entity[n][field]>> :
                <<k, n>> \in {<<k, n>> \in withId \X (1..MaxInformed) :
                                /\ n <= Len(message[k].informed_entity)
                                /\ message[k].informed_entity[n][field] # ""}}

TimesStored(name, key) ==
    Cardinality({k \in 1..Len(alerts_call.tables[name].rows) :
                    alerts_call.tables[name].rows[k].key = key})

\* C19: however often the message repeats an (alert id, affected route,
\* stop or trip) pair or an (alert id, period index) pair, storing the
\* alerts raises no error and every child table holds each pair it was
\* asked for exactly once and nothing else; a repeated period keeps the
\* columns of its first occurrence.
C19_ChildInsertsIdempotent ==
    pc = "alerts_stored" =>
        \A name \in ChildTables :
            LET table == alerts_call.tables[name]
            IN  /\ ~table.raised
                /\ \A key \in KeysAsked(name) : TimesStored(name, key) = 1
                /\ \A k \in 1..Len(table.rows) : table.rows[k].key \in KeysAsked(name)
                /\ name = "rt_alert_active_periods" =>
                      \A k \in 1..Len(table.rows) :
                          LET first == table.rows[k].active_start_utc
                          IN  /\ alerts_call.message[first].id = table.rows[k].key[2]
                              /\ \A earlier \in 1..(first - 1) :
                                    \/ alerts_call.message[earlier].id # table.rows[k].key[2]
                                    \/ alerts_call.message[earlier].active_period
                                          <= table.rows[k].key[3]

\* C19 witness: two entities of the same alert, each with the same route
\* twice and with an active period, were stored: one route row and one
\* period row.
C19_RepeatedKeysStored ==
    /\ pc = "alerts_stored"
    /\ Len(alerts_call.message) = 2
    /\ alerts_call.message[1].id = "a1"
    /\ alerts_call.message[2].id = "a1"
    /\ \A k \in 1..2 :
          /\ alerts_call.message[k].active_period > 0
          /\ alerts_call.message[k].informed_entity
                = <<InformedEntity("r1", "", ""), InformedEntity("r1", "", "")>>
    /\ Len(alerts_call.tables["rt_alert_routes"].rows) = 1
    /\ TimesStored("rt_alert_active_periods", <<NewSnapshot, "a1", 0>>) = 1

(***************************************************************************)
(* Properties of the archive of a day (SpecArchive)                         *)
(***************************************************************************)
\* the call stored an archive entry and deleted the rows
Archived == pc = "archive_day_returned" /\ archive_call.live # archive_call.selected

\* the blob stored for each table decompresses to the text selected for it
BlobsRoundTrip ==
    Archived =>
        \A table \in ArchivedTables :
            Decode(Gunzip(archive_call.archive[table]))
                = CopyCsv(archive_call.selected[table])

\* C20: the blob archive_day stores for a table decompresses to the CSV
\* text selected for the snapshot ids of the date before the rows were
\* deleted, and the row count returned for the table is the number of its
\* data rows.
C20_ArchiveRoundTrip ==
    /\ BlobsRoundTrip
    /\ Archived =>
          \A table \in ArchivedTables :
              archive_call.summary[1][table] = Len(archive_call.selected[table])

(***************************************************************************)
(* Properties of the aligned cadence (SpecAlign)                            *)
(***************************************************************************)
\* C21: with whole seconds, a positive interval and any offset, the wait w
\* computed at time t satisfies 0 <= w < interval and t + w is congruent to
\* the offset modulo the interval; every cycle starts at such an instant,
\* whenever the process started; an interval that is not positive is
\* rejected and no cycle starts.
C21_AlignedCadence ==
    /\ pc = "aligned" =>
          /\ 0 <= call.delay
          /\ call.delay < call.align_interval
          /\ call.now = call.asked_at + call.delay
          /\ (call.asked_at + call.delay - call.align_offset) % call.align_interval = 0
    /\ call.align_interval > 0 =>
          \A start \in call.cycle_starts :
              (start - call.align_offset) % call.align_interval = 0
    /\ call.align_interval <= 0 =>
          /\ pc \in {"configure_alignment", "rejected"}
          /\ call.cycle_starts = {}

\* C21 witness: two cycles started, the second after a wait, with an offset
\* that is not a multiple of the interval and lies outside 0..interval.
C21_TwoAlignedCycles ==
    /\ pc = "aligned"
    /\ call.align_interval = MaxAlignInterval
    /\ call.align_offset = -1
    /\ call.delay > 0
    /\ Cardinality(call.cycle_starts) = 2

(***************************************************************************)
(* Properties of the snapshot folders (SpecFolders)                         *)
(***************************************************************************)
\* the snapshot directories the run has to archive
ToArchive ==
    {name \in 1..MaxStamp :
        /\ call.before.dirs[name].kind = "dir"
        /\ name <= call.cutoff
        /\ ~call.dry_run
        /\ call.before.archives[name] = NoArchive \/ call.force}

\* C22: after the run, every timestamped directory at or before the cutoff
\* (without an archive, or with force) is gone and its <name>.tar.gz holds
\* its files, provided dry_run is false; every other entry of the root,
\* its archive and its left-over file are as they were, so nothing changes
\* for newer directories, for other names, or with dry_run.
C22_OnlyOldFoldersArchived ==
    pc = "folders_archived" =>
        \A name \in EntryNames :
            IF name \in ToArchive
            THEN /\ call.fs.dirs[name] = NoEntryAt
                 /\ call.fs.archives[name] = call.before.dirs[name].files
            ELSE /\ call.fs.dirs[name] = call.before.dirs[name]
                 /\ call.fs.archives[name] = call.before.archives[name]
                 /\ call.fs.tmps[name] = call.before.tmps[name]

\* C22 witness: the directory at the cutoff was archived over a stale
\* archive, the newer one was left with no archive.
C22_OldArchivedNewKept ==
    /\ pc = "folders_archived"
    /\ call.cutoff = 1
    /\ call.before.archives[1] = "stale"
    /\ call.fs.archives[1] = "older"
    /\ call.fs.dirs[1] = NoEntryAt
    /\ call.fs.dirs[MaxStamp] = Entry("dir", "recent")
    /\ call.fs.archives[MaxStamp] = NoArchive

(***************************************************************************)
(* Properties of the caches of a DimLookup (SpecCache)                      *)
(***************************************************************************)
\* C23: in the lifetime of one DimLookup every check of a kind on a key
\* queries reference storage at most once and reads the CSV file at most
\* once; the answer, positive or negative, is cached, every repetition of
\* the check gives that same answer, and a negative answer has put the key
\* into the missing set of its category.
C23_OneQueryPerKey ==
    \A check \in Checks :
        /\ call.queries[check] <= 1
        /\ call.csv_reads[check] <= 1
        /\ call.queries[check] = 1 <=> call.cache[check] # "none"
        /\ Cardinality(call.answers[check]) <= 1
        /\ call.answers[check] \subseteq {call.cache[check]}
        /\ "no" \in call.answers[check] =>
              check[2] \in call.missing[CategoryOf(check[1])]

\* C23 witness: trip 2 was found missing, the tables changed so that they
\* hold it, and the check was repeated: still one query and the answer no.
C23_NegativeAnswerRepeated ==
    /\ pc = "checking"
    /\ call.hit = << <<"ensure_trip", 2>> >>
    /\ call.answers[<<"ensure_trip", 2>>] = {"no"}
    /\ 2 \in call.storage["dim_trips"]
    /\ call.queries[<<"ensure_trip", 2>>] = 1
    /\ call.cache[<<"_load_trip_profile", 2>>] = "yes"

(***************************************************************************)
(* Properties of the trip delay rows (SpecDelays)                           *)
(***************************************************************************)
\* the places <<k, n>> of the stop time updates whose trip and stop exist
KnownUpdates ==
    {place \in (1..Len(call.message)) \X (1..MaxUpdates) :
        /\ place[2] <= Len(call.message[place[1]].stop_time_update)
        /\ call.message[place[1]].trip_id \in {"t1", "t2"}
        /\ call.message[place[1]].stop_time_update[place[2]].stop_id = "s1"}
KeyAt(place) ==
    <<call.message[place[1]].trip_id,
      call.message[place[1]].stop_time_update[place[2]].stop_id>>
LaterPlace(a, b) == a[1] > b[1] \/ (a[1] = b[1] /\ a[2] > b[2])
LastDelayOf(key) ==
    LET last == CHOOSE place \in KnownUpdates :
                    /\ KeyAt(place) = key
                    /\ \A other \in KnownUpdates :
                          KeyAt(other) = key => ~LaterPlace(other, place)
    IN  call.message[last[1]].stop_time_update[last[2]].delay

\* C24: store_trip_delays inserts exactly one row for every distinct
\* (trip, stop) key among the stop time updates whose trip and stop exist in
\* reference data and no other row; the row and the lookup entry of a key
\* carry the values of its last occurrence; the count returned is the
\* number of rows and the keys of the lookup are the keys of the rows.
C24_OneRowPerKey ==
    pc = "trip_delays_stored" =>
        LET rows == call.stored.rt_trip_delays
            keys == {KeyAt(place) : place \in KnownUpdates}
        IN  /\ \A key \in keys :
                  Cardinality({k \in 1..Len(rows) : rows[k].key = key}) = 1
            /\ \A k \in 1..Len(rows) :
                  /\ rows[k].key \in keys
                  /\ rows[k].value = LastDelayOf(rows[k].key)
            /\ call.stored.count = Len(rows)
            /\ {e.key : e \in call.stored.delay_lookup} = {rows[k].key : k \in 1..Len(rows)}
            /\ \A e \in call.stored.delay_lookup : e.value = LastDelayOf(e.key)
            /\ Cardinality(call.stored.delay_lookup) = Len(rows)

\* C24 witness: the key (t1, s1) came in both entities with different
\* delays, beside an update of an unknown stop; one row with the last delay.
C24_LastOccurrenceKept ==
    /\ pc = "trip_delays_stored"
    /\ Len(call.message) = 2
    /\ call.message[1] = [trip_id |-> "t1", stop_time_update |->
            <<[stop_id |-> "s1", delay |-> 1], [stop_id |-> "s9", delay |-> 1]>>]
    /\ call.message[2] = [trip_id |-> "t1", stop_time_update |->
            <<[stop_id |-> "s1", delay |-> 2]>>]
    /\ call.stored.count = 1
    /\ call.stored.rt_trip_delays = <<[key |-> <<"t1", "s1">>, value |-> 2]>>

(***************************************************************************)
(* Properties of the rail tables (SpecPrune)                                *)
(***************************************************************************)
\* C25: after every committed cycle neither the rail current table nor the
\* rail history table holds a row whose polled-at time is older than the
\* capture time of that cycle minus the retention window.
C25_NothingOlderThanRetention ==
    call.polled_at # None =>
        \A row \in call.tables.history \cup call.tables.current :
            row.polled_at_utc >= call.polled_at - call.vehicle_history_retention

(***************************************************************************)
(* Properties of the rows of a cycle (SpecIntegrity)                        *)
(***************************************************************************)
InDimTrips(trip_id) == \E row \in call.data.dim_trips : row.trip_id = trip_id

\* C26: every vehicle entity with a non-empty id has exactly one position
\* row under its id, whatever the reference tables hold, and there is no
\* other row; every trip id, route id and current, previous or next stop id
\* of a vehicle row that is not null, both ids of a delay row and the route,
\* stop or trip id of an alert child row exist in the reference tables the
\* cycle checked them against.
C26_RowsReferToKnownIds ==
    /\ \A key \in call.rt_trip_delays :
          InDimTrips(key[1]) /\ key[2] \in call.data.dim_stops
    /\ \A row \in call.alert_rows.rt_alert_routes : row[2] \in call.data.dim_routes
    /\ \A row \in call.alert_rows.rt_alert_stops : row[2] \in call.data.dim_stops
    /\ \A row \in call.alert_rows.rt_alert_trips : InDimTrips(row[2])
    /\ pc = "rows_stored" =>
          LET rows == call.rt_vehicle_positions
          IN  /\ \A k \in 1..Len(call.message) :
                    call.message[k].id # "" =>
                        Cardinality({n \in 1..Len(rows) :
                                        rows[n].key = call.message[k].id}) = 1
              /\ \A n \in 1..Len(rows) :
                    /\ \E k \in 1..Len(call.message) : call.message[k].id = rows[n].key
                    /\ rows[n].key # ""
                    /\ rows[n].value.trip_id # NoTrip => InDimTrips(rows[n].value.trip_id)
                    /\ rows[n].value.route_id # NoRoute =>
                          rows[n].value.route_id \in call.data.dim_routes
                    /\ \A field \in {"current_stop_id", "previous_stop_id", "next_stop_id"} :
                          rows[n].value[field] # NoStop =>
                              rows[n].value[field] \in call.data.dim_stops

\* C26 witness: trip t1 names route r1, which is not in dim_routes, and stop
\* s2 is not in dim_stops; the vehicle on t1 at s1 still has its row, with
\* the route and the next stop nulled, and the delay update at s2 has no row.
C26_RowKeptIdsNulled ==
    /\ pc = "rows_stored"
    /\ call.data.dim_routes = {}
    /\ call.data.dim_stops = {"s1"}
    /\ call.message = <<[id |-> "e1", trip_id |-> "t1", stop_id |-> "s1"]>>
    /\ call.rt_vehicle_positions =
          <<[key |-> "e1",
             value |-> [trip_id |-> "t1", route_id |-> NoRoute,
                        current_stop_id |-> "s1", previous_stop_id |-> NoStop,
                        next_stop_id |-> NoStop]]>>
    /\ call.rt_trip_delays = {}
    /\ call.alert_rows.rt_alert_stops = {<<"a1", "s1">>}

(***************************************************************************)
(* The cursors over several cycles (Spec)                                   *)
(***************************************************************************)
\* C27: across any sequence of cycles the stored cursor timestamp of a feed
\* kind never decreases.
C27_CursorsNeverDecrease ==
    [][\A t \in FeedTypes :
          db'.rt_feed_cursors[t].last_header_timestamp
              >= db.rt_feed_cursors[t].last_header_timestamp]_vars

(***************************************************************************)
(* Properties of repeated archive runs (SpecArchiveRuns,                    *)
(* SpecScheduledArchive)                                                    *)
(***************************************************************************)
\* C28: after any sequence of archive runs every snapshot that archive_day
\* deleted from the live tables is contained in the archive entry stored
\* for its date.
C28_DeletedRowsAreArchived ==
    \A gone \in call.db.deleted :
        \E entry \in call.db.rt_snapshot_archives :
            /\ entry.archive_date = gone \div TicksPerDay
            /\ gone \in entry.snapshot_ids

\* C29: under repeated archive runs without --force every snapshot whose
\* capture time is older than the retention cutoff is eventually archived
\* and deleted from the live tables.
C29_OldSnapshotsEventuallyArchived ==
    \A t \in 0..MaxTick :
        [](((\E row \in call.db.rt_snapshots : row.snapshot_id = t)
              /\ t < call.now - call.retention_days * TicksPerDay)
            => <>(\A row \in call.db.rt_snapshots : row.snapshot_id # t))

(***************************************************************************)
(* Properties of the failure history (SpecHistory)                          *)
(***************************************************************************)
\* C30: the daily report delivered on day D lists every failure timestamp
\* that run_iteration recorded on day D-1 in the same process, whatever
\* passes came between the recording and the delivery.
C30_ReportListsRecordedFailures ==
    call.delivered # NoReport =>
        \A f \in call.recorded :
            f.date = call.delivered.report_date => f \in call.delivered.listed
====
